---- MODULE Spec2Model ----
(***************************************************************************)
(* Azure IR -> Pulumi backend: the naming sanitizer (naming.py), the       *)
(* resource kind registry (service_registry.py), the fabric compiler and   *)
(* its connector chain (azure_fabric.py) and the payload validator         *)
(* (validator.py).                                                         *)
(*                                                                         *)
(* A Python str is a sequence of one-character strings, so that            *)
(* substitution, slicing, stripping and concatenation are computed and not *)
(* assumed.  Python's None is the value None below.                        *)
(***************************************************************************)
EXTENDS Integers, Sequences, FiniteSets, TLC

VARIABLES
    nm_pc, nm_arg, nm_ret,     \* one call of safe_name: position, argument, result
    fb_pc,                     \* apply_ir: "idle", "nodes", "edges", "returned", "raised"
    fb_ir,                     \* the ir argument of apply_ir
    fb_ni, fb_ei,              \* the next node and the next edge of the two loops
    node_index,                \* AzureFabric.node_index: node id -> record
    _outputs,                  \* AzureFabric._outputs: key -> value
    fb_created,                \* the creator calls made, in order
    fb_resources,              \* the provider resources declared, in order
    fb_named,                  \* the names handed to the provider, in order
    fb_prev,                   \* what the previous compiler declared for the same ir
    fb_bindings,               \* the event subscriptions wired by _connect
    fb_exports,                \* the pulumi.export calls made by _connect, in order
    fb_log,                    \* the pulumi.log.warn calls, in order
    fb_error,                  \* the exception apply_ir raised
    sr_last,                   \* the last ServiceRegistry call and what it returned
    vl_pc,                     \* one call of validate: "idle", "called", "returned", "raised"
    vl_ir,                     \* the ir argument of validate
    vl_report,                 \* the report validate returned
    vl_error,                  \* the exception validate raised
    en_pc,                     \* the request in progress: where its handler stands
    en_req,                    \* the request in progress
    en_known,                  \* its stack had a record when the request arrived
    en_exc,                    \* the exception its engine method is handling
    en_creds,                  \* the creds argument the engine method was called with
    en_validation,             \* preview: the report of the validator
    en_calls,                  \* the calls the request has made outside the core, in order
    en_result,                 \* the response of the last request
    environ,                   \* os.environ: the ARM_* variables
    stacks,                    \* the backend: stack name -> stack record
    th,                        \* the handler threads of the server: position and request of each
    uw_pc, uw_arg, uw_ret      \* one call of _unwrap: position, argument, result

nm_vars == <<nm_pc, nm_arg, nm_ret>>

fb_vars == <<fb_pc, fb_ir, fb_ni, fb_ei, node_index, _outputs, fb_created,
             fb_resources, fb_bindings, fb_exports, fb_log, fb_error, sr_last,
             fb_named, fb_prev>>

vl_vars == <<vl_pc, vl_ir, vl_report, vl_error>>

en_vars == <<en_pc, en_req, en_known, en_exc, en_creds, en_validation, en_calls, en_result,
             environ, stacks, th>>

uw_vars == <<uw_pc, uw_arg, uw_ret>>

vars == <<nm_vars, fb_vars, vl_vars, en_vars, uw_vars>>

----------------------------------------------------------------------------
(* Python values                                                           *)

\* None, kept apart from every str (no str holds the element "None").
None == <<"None">>

\* bool(x) of an optional str: None and "" are falsy.
Truthy(x) == x # None /\ x # <<>>

\* x or y
PyOr(x, y) == IF Truthy(x) THEN x ELSE y

Min(a, b) == IF a <= b THEN a ELSE b

\* s[:n]
Take(s, n) == SubSeq(s, 1, Min(n, Len(s)))

AsciiLower == {"a","b","c","d","e","f","g","h","i","j","k","l","m",
               "n","o","p","q","r","s","t","u","v","w","x","y","z"}
AsciiUpper == {"A","B","C","D","E","F","G","H","I","J","K","L","M",
               "N","O","P","Q","R","S","T","U","V","W","X","Y","Z"}
AsciiDigit == {"0","1","2","3","4","5","6","7","8","9"}

\* the complement of the class [^a-zA-Z0-9-]
SafeChars == AsciiLower \cup AsciiUpper \cup AsciiDigit \cup {"-"}

\* s.strip("-")
RECURSIVE LStrip(_)
LStrip(s) == IF s # <<>> /\ Head(s) = "-" THEN LStrip(Tail(s)) ELSE s

RECURSIVE RStrip(_)
RStrip(s) ==
    IF s # <<>> /\ s[Len(s)] = "-" THEN RStrip(SubSeq(s, 1, Len(s) - 1)) ELSE s

Strip(s) == RStrip(LStrip(s))

\* re.sub(r"[^a-zA-Z0-9-]", "-", s)
SubUnsafe(s) == [i \in 1..Len(s) |-> IF s[i] \in SafeChars THEN s[i] ELSE "-"]

----------------------------------------------------------------------------
(* naming.py                                                               *)

MaxNameLen == 63

\* safe_name with the strip applied before the slice
safe_name_StripThenCut(name) == Take(Strip(SubUnsafe(name)), MaxNameLen)

\* safe_name(name)
safe_name(name) == Strip(Take(SubUnsafe(name), MaxNameLen))


----------------------------------------------------------------------------
(* Python dicts                                                            *)

EmptyDict == [x \in {} |-> None]

\* d[k] = v
Put(d, k, v) == [x \in (DOMAIN d) \cup {k} |-> IF x = k THEN v ELSE d[x]]

\* d.get(k, default)
Get(d, k, default) == IF k \in DOMAIN d THEN d[k] ELSE default

\* the concatenation of a sequence of strings (an f-string of several parts)
RECURSIVE Cat(_)
Cat(parts) == IF parts = <<>> THEN <<>> ELSE Head(parts) \o Cat(Tail(parts))

\* str(i) of a small index
Digits == <<"0","1","2","3","4","5","6","7","8","9">>
IntStr(i) == <<Digits[i + 1]>>

----------------------------------------------------------------------------
(* The kind registries and the creators (azure_fabric.py,                  *)
(* service_registry.py).  A creator is described by what it declares: the  *)
(* cut applied on top of safe_name, the provider resources it declares     *)
(* (type, logical name prefix and suffix), the fields of the record it     *)
(* stores in node_index and the output keys it writes.                     *)

\* AzureFabric._service_registry, in insertion order
FabricRegistry == <<
    [kind |-> "azure.storage", creator |-> "_create_storage"],
    [kind |-> "azure.servicebus", creator |-> "_create_servicebus"],
    [kind |-> "azure.containerapp", creator |-> "_create_container_app"],
    [kind |-> "azure.vm", creator |-> "_create_virtual_machine"],
    [kind |-> "azure.functionapp", creator |-> "_create_function_app"],
    [kind |-> "azure.sql", creator |-> "_create_sql_database"],
    [kind |-> "azure.cosmosdb", creator |-> "_create_cosmos_db"],
    [kind |-> "azure.apimanagement", creator |-> "_create_api_management"],
    [kind |-> "azure.keyvault", creator |-> "_create_key_vault"],
    [kind |-> "azure.appinsights", creator |-> "_create_application_insights"],
    [kind |-> "azure.vnet", creator |-> "_create_virtual_network"]
>>

\* ServiceRegistry._service_registry, in insertion order
ServiceRegistryTable == <<
    [kind |-> "azure.storage", creator |-> "_create_storage"],
    [kind |-> "azure.servicebus", creator |-> "_create_servicebus"],
    [kind |-> "azure.containerapp", creator |-> "_create_container_app"],
    [kind |-> "azure.vm", creator |-> "_create_virtual_machine"],
    [kind |-> "azure.functionapp", creator |-> "_create_function_app"],
    [kind |-> "azure.sql", creator |-> "_create_sql_database"],
    [kind |-> "azure.cosmosdb", creator |-> "_create_cosmos_db"],
    [kind |-> "azure.apimanagement", creator |-> "_create_api_management"],
    [kind |-> "azure.keyvault", creator |-> "_create_key_vault"],
    [kind |-> "azure.appinsights", creator |-> "_create_application_insights"],
    [kind |-> "azure.vnet", creator |-> "_create_virtual_network"]
>>

_create_storage ==
    [creator |-> "_create_storage", kind |-> "azure.storage", cut |-> 20,
     domain |-> <<"s","t","o","r","a","g","e">>,
     attrs |-> <<<<"a","c","c","o","u","n","t","N","a","m","e">>, <<"c","o","n","n">>>>,
     fields |-> {"account", "connectionString"},
     resources |-> <<
          [type |-> "storage.StorageAccount", pre |-> <<"s","t","-">>, suf |-> <<>>]>>]

_create_servicebus ==
    [creator |-> "_create_servicebus", kind |-> "azure.servicebus", cut |-> 40,
     domain |-> <<"s","e","r","v","i","c","e","b","u","s">>,
     attrs |-> <<<<"q","u","e","u","e","N","a","m","e">>, <<"c","o","n","n">>>>,
     fields |-> {"namespace", "queue", "connectionString"},
     resources |-> <<
          [type |-> "servicebus.Namespace", pre |-> <<"s","b","-">>, suf |-> <<>>],
          [type |-> "servicebus.Queue", pre |-> <<"s","b","q","-">>, suf |-> <<>>],
          [type |-> "servicebus.NamespaceAuthorizationRule", pre |-> <<"s","b","r","u","l","e","-">>, suf |-> <<>>]>>]

_create_container_app ==
    [creator |-> "_create_container_app", kind |-> "azure.containerapp", cut |-> 40,
     domain |-> <<"c","o","n","t","a","i","n","e","r","a","p","p">>,
     attrs |-> <<<<"f","q","d","n">>>>,
     fields |-> {"env", "app"},
     resources |-> <<
          [type |-> "operationalinsights.Workspace", pre |-> <<"l","o","g","-">>, suf |-> <<>>],
          [type |-> "app.ManagedEnvironment", pre |-> <<"c","a","e","-">>, suf |-> <<>>],
          [type |-> "app.ContainerApp", pre |-> <<"c","a","-">>, suf |-> <<>>]>>]

_create_virtual_machine ==
    [creator |-> "_create_virtual_machine", kind |-> "azure.vm", cut |-> 40,
     domain |-> <<"v","m">>,
     attrs |-> <<<<"p","u","b","l","i","c","I","p">>, <<"a","d","m","i","n","U","s","e","r","n","a","m","e">>>>,
     fields |-> {"vm", "public_ip", "vnet", "nic"},
     resources |-> <<
          [type |-> "network.VirtualNetwork", pre |-> <<"v","n","e","t","-">>, suf |-> <<>>],
          [type |-> "network.Subnet", pre |-> <<"s","u","b","n","e","t","-">>, suf |-> <<>>],
          [type |-> "network.PublicIPAddress", pre |-> <<"p","i","p","-">>, suf |-> <<>>],
          [type |-> "network.NetworkInterface", pre |-> <<"n","i","c","-">>, suf |-> <<>>],
          [type |-> "compute.VirtualMachine", pre |-> <<"v","m","-">>, suf |-> <<>>]>>]

_create_function_app ==
    [creator |-> "_create_function_app", kind |-> "azure.functionapp", cut |-> 40,
     domain |-> <<"f","u","n","c","t","i","o","n","a","p","p">>,
     attrs |-> <<<<"u","r","l">>, <<"n","a","m","e">>>>,
     fields |-> {"app", "plan", "storage"},
     resources |-> <<
          [type |-> "storage.StorageAccount", pre |-> <<"f","u","n","c","s","t","-">>, suf |-> <<>>],
          [type |-> "web.AppServicePlan", pre |-> <<"p","l","a","n","-">>, suf |-> <<>>],
          [type |-> "web.WebApp", pre |-> <<"f","u","n","c","-">>, suf |-> <<>>]>>]

_create_sql_database ==
    [creator |-> "_create_sql_database", kind |-> "azure.sql", cut |-> 40,
     domain |-> <<"s","q","l">>,
     attrs |-> <<<<"s","e","r","v","e","r","N","a","m","e">>, <<"d","a","t","a","b","a","s","e","N","a","m","e">>, <<"c","o","n","n","e","c","t","i","o","n","S","t","r","i","n","g">>>>,
     fields |-> {"server", "database"},
     resources |-> <<
          [type |-> "sql.Server", pre |-> <<"s","q","l","-">>, suf |-> <<>>],
          [type |-> "sql.Database", pre |-> <<"d","b","-">>, suf |-> <<>>],
          [type |-> "sql.FirewallRule", pre |-> <<"f","w","-">>, suf |-> <<"-","a","z","u","r","e">>]>>]

_create_cosmos_db ==
    [creator |-> "_create_cosmos_db", kind |-> "azure.cosmosdb", cut |-> 40,
     domain |-> <<"c","o","s","m","o","s","d","b">>,
     attrs |-> <<<<"e","n","d","p","o","i","n","t">>, <<"p","r","i","m","a","r","y","K","e","y">>>>,
     fields |-> {"account", "database", "container"},
     resources |-> <<
          [type |-> "cosmosdb.DatabaseAccount", pre |-> <<"c","o","s","m","o","s","-">>, suf |-> <<>>],
          [type |-> "cosmosdb.SqlResourceSqlDatabase", pre |-> <<"c","o","s","m","o","s","d","b","-">>, suf |-> <<>>],
          [type |-> "cosmosdb.SqlResourceSqlContainer", pre |-> <<"c","o","s","m","o","s","c","o","n","t","a","i","n","e","r","-">>, suf |-> <<>>]>>]

_create_api_management ==
    [creator |-> "_create_api_management", kind |-> "azure.apimanagement", cut |-> 40,
     domain |-> <<"a","p","i","m","a","n","a","g","e","m","e","n","t">>,
     attrs |-> <<<<"g","a","t","e","w","a","y","U","r","l">>, <<"p","o","r","t","a","l","U","r","l">>>>,
     fields |-> {"service"},
     resources |-> <<
          [type |-> "apimanagement.ApiManagementService", pre |-> <<"a","p","i","m","-">>, suf |-> <<>>]>>]

_create_key_vault ==
    [creator |-> "_create_key_vault", kind |-> "azure.keyvault", cut |-> 40,
     domain |-> <<"k","e","y","v","a","u","l","t">>,
     attrs |-> <<<<"u","r","i">>>>,
     fields |-> {"vault"},
     resources |-> <<
          [type |-> "keyvault.Vault", pre |-> <<"k","v","-">>, suf |-> <<>>]>>]

_create_application_insights ==
    [creator |-> "_create_application_insights", kind |-> "azure.appinsights", cut |-> 40,
     domain |-> <<"a","p","p","i","n","s","i","g","h","t","s">>,
     attrs |-> <<<<"i","n","s","t","r","u","m","e","n","t","a","t","i","o","n","K","e","y">>, <<"c","o","n","n","e","c","t","i","o","n","S","t","r","i","n","g">>, <<"a","p","p","I","d">>>>,
     fields |-> {"insights"},
     resources |-> <<
          [type |-> "applicationinsights.Component", pre |-> <<"a","p","p","i","-">>, suf |-> <<>>]>>]

_create_virtual_network ==
    [creator |-> "_create_virtual_network", kind |-> "azure.vnet", cut |-> 40,
     domain |-> <<"v","n","e","t">>,
     attrs |-> <<<<"i","d">>, <<"a","d","d","r","e","s","s","S","p","a","c","e">>>>,
     fields |-> {"vnet", "subnets"},
     resources |-> <<
          [type |-> "network.VirtualNetwork", pre |-> <<"v","n","e","t","-">>, suf |-> <<>>]>>]

Creators == <<_create_storage, _create_servicebus, _create_container_app, _create_virtual_machine, _create_function_app, _create_sql_database, _create_cosmos_db, _create_api_management, _create_key_vault, _create_application_insights, _create_virtual_network>>

\* the if/elif chain of _connect, one entry per branch, in source order
Connectors == <<
    [src |-> "azure.storage", dst |-> "azure.servicebus", structural |-> TRUE,
     exports |-> <<>>],
    [src |-> "azure.servicebus", dst |-> "azure.containerapp", structural |-> FALSE,
     exports |-> <<[attr |-> <<"q","u","e","u","e">>, side |-> "src", field |-> "queue", path |-> "name"], [attr |-> <<"c","o","n","n">>, side |-> "src", field |-> "connectionString", path |-> ""]>>],
    [src |-> "azure.servicebus", dst |-> "azure.functionapp", structural |-> FALSE,
     exports |-> <<[attr |-> <<"q","u","e","u","e">>, side |-> "src", field |-> "queue", path |-> "name"], [attr |-> <<"c","o","n","n">>, side |-> "src", field |-> "connectionString", path |-> ""]>>],
    [src |-> "azure.keyvault", dst |-> "azure.functionapp", structural |-> FALSE,
     exports |-> <<[attr |-> <<"k","e","y","v","a","u","l","t","-","u","r","i">>, side |-> "src", field |-> "vault", path |-> "properties.vault_uri"], [attr |-> <<"k","e","y","v","a","u","l","t","-","n","a","m","e">>, side |-> "src", field |-> "vault", path |-> "name"]>>],
    [src |-> "azure.keyvault", dst |-> "azure.containerapp", structural |-> FALSE,
     exports |-> <<[attr |-> <<"k","e","y","v","a","u","l","t","-","u","r","i">>, side |-> "src", field |-> "vault", path |-> "properties.vault_uri"], [attr |-> <<"k","e","y","v","a","u","l","t","-","n","a","m","e">>, side |-> "src", field |-> "vault", path |-> "name"]>>],
    [src |-> "azure.cosmosdb", dst |-> "azure.functionapp", structural |-> FALSE,
     exports |-> <<[attr |-> <<"c","o","s","m","o","s","-","e","n","d","p","o","i","n","t">>, side |-> "src", field |-> "account", path |-> "document_endpoint"], [attr |-> <<"c","o","s","m","o","s","-","d","a","t","a","b","a","s","e">>, side |-> "src", field |-> "database", path |-> "name"], [attr |-> <<"c","o","s","m","o","s","-","c","o","n","t","a","i","n","e","r">>, side |-> "src", field |-> "container", path |-> "name"]>>],
    [src |-> "azure.cosmosdb", dst |-> "azure.containerapp", structural |-> FALSE,
     exports |-> <<[attr |-> <<"c","o","s","m","o","s","-","e","n","d","p","o","i","n","t">>, side |-> "src", field |-> "account", path |-> "document_endpoint"], [attr |-> <<"c","o","s","m","o","s","-","d","a","t","a","b","a","s","e">>, side |-> "src", field |-> "database", path |-> "name"], [attr |-> <<"c","o","s","m","o","s","-","c","o","n","t","a","i","n","e","r">>, side |-> "src", field |-> "container", path |-> "name"]>>],
    [src |-> "azure.sql", dst |-> "azure.functionapp", structural |-> FALSE,
     exports |-> <<[attr |-> <<"s","q","l","-","s","e","r","v","e","r">>, side |-> "src", field |-> "server", path |-> "fully_qualified_domain_name"], [attr |-> <<"s","q","l","-","d","a","t","a","b","a","s","e">>, side |-> "src", field |-> "database", path |-> "name"]>>],
    [src |-> "azure.sql", dst |-> "azure.containerapp", structural |-> FALSE,
     exports |-> <<[attr |-> <<"s","q","l","-","s","e","r","v","e","r">>, side |-> "src", field |-> "server", path |-> "fully_qualified_domain_name"], [attr |-> <<"s","q","l","-","d","a","t","a","b","a","s","e">>, side |-> "src", field |-> "database", path |-> "name"]>>],
    [src |-> "azure.storage", dst |-> "azure.functionapp", structural |-> FALSE,
     exports |-> <<[attr |-> <<"s","t","o","r","a","g","e","-","c","o","n","n">>, side |-> "src", field |-> "connectionString", path |-> ""], [attr |-> <<"s","t","o","r","a","g","e","-","a","c","c","o","u","n","t">>, side |-> "src", field |-> "account", path |-> "name"]>>],
    [src |-> "azure.storage", dst |-> "azure.containerapp", structural |-> FALSE,
     exports |-> <<[attr |-> <<"s","t","o","r","a","g","e","-","c","o","n","n">>, side |-> "src", field |-> "connectionString", path |-> ""], [attr |-> <<"s","t","o","r","a","g","e","-","a","c","c","o","u","n","t">>, side |-> "src", field |-> "account", path |-> "name"]>>],
    [src |-> "azure.appinsights", dst |-> "azure.functionapp", structural |-> FALSE,
     exports |-> <<[attr |-> <<"a","p","p","i","n","s","i","g","h","t","s","-","k","e","y">>, side |-> "src", field |-> "insights", path |-> "instrumentation_key"], [attr |-> <<"a","p","p","i","n","s","i","g","h","t","s","-","c","o","n","n">>, side |-> "src", field |-> "insights", path |-> "connection_string"]>>],
    [src |-> "azure.appinsights", dst |-> "azure.containerapp", structural |-> FALSE,
     exports |-> <<[attr |-> <<"a","p","p","i","n","s","i","g","h","t","s","-","k","e","y">>, side |-> "src", field |-> "insights", path |-> "instrumentation_key"], [attr |-> <<"a","p","p","i","n","s","i","g","h","t","s","-","c","o","n","n">>, side |-> "src", field |-> "insights", path |-> "connection_string"]>>],
    [src |-> "azure.apimanagement", dst |-> "azure.functionapp", structural |-> FALSE,
     exports |-> <<[attr |-> <<"a","p","i","m","-","g","a","t","e","w","a","y">>, side |-> "src", field |-> "service", path |-> "gateway_url"], [attr |-> <<"a","p","i","m","-","p","o","r","t","a","l">>, side |-> "src", field |-> "service", path |-> "portal_url"]>>],
    [src |-> "azure.apimanagement", dst |-> "azure.containerapp", structural |-> FALSE,
     exports |-> <<[attr |-> <<"a","p","i","m","-","g","a","t","e","w","a","y">>, side |-> "src", field |-> "service", path |-> "gateway_url"], [attr |-> <<"a","p","i","m","-","p","o","r","t","a","l">>, side |-> "src", field |-> "service", path |-> "portal_url"]>>],
    [src |-> "azure.storage", dst |-> "azure.sql", structural |-> FALSE,
     exports |-> <<[attr |-> <<"s","t","o","r","a","g","e","-","c","o","n","n">>, side |-> "src", field |-> "connectionString", path |-> ""], [attr |-> <<"s","t","o","r","a","g","e","-","a","c","c","o","u","n","t">>, side |-> "src", field |-> "account", path |-> "name"]>>],
    [src |-> "azure.storage", dst |-> "azure.cosmosdb", structural |-> FALSE,
     exports |-> <<[attr |-> <<"s","t","o","r","a","g","e","-","c","o","n","n">>, side |-> "src", field |-> "connectionString", path |-> ""], [attr |-> <<"s","t","o","r","a","g","e","-","a","c","c","o","u","n","t">>, side |-> "src", field |-> "account", path |-> "name"]>>],
    [src |-> "azure.storage", dst |-> "azure.vm", structural |-> FALSE,
     exports |-> <<[attr |-> <<"s","t","o","r","a","g","e","-","c","o","n","n">>, side |-> "src", field |-> "connectionString", path |-> ""], [attr |-> <<"s","t","o","r","a","g","e","-","a","c","c","o","u","n","t">>, side |-> "src", field |-> "account", path |-> "name"]>>],
    [src |-> "azure.storage", dst |-> "azure.apimanagement", structural |-> FALSE,
     exports |-> <<[attr |-> <<"s","t","o","r","a","g","e","-","c","o","n","n">>, side |-> "src", field |-> "connectionString", path |-> ""], [attr |-> <<"s","t","o","r","a","g","e","-","a","c","c","o","u","n","t">>, side |-> "src", field |-> "account", path |-> "name"]>>],
    [src |-> "azure.servicebus", dst |-> "azure.sql", structural |-> FALSE,
     exports |-> <<[attr |-> <<"q","u","e","u","e">>, side |-> "src", field |-> "queue", path |-> "name"], [attr |-> <<"c","o","n","n">>, side |-> "src", field |-> "connectionString", path |-> ""]>>],
    [src |-> "azure.servicebus", dst |-> "azure.cosmosdb", structural |-> FALSE,
     exports |-> <<[attr |-> <<"q","u","e","u","e">>, side |-> "src", field |-> "queue", path |-> "name"], [attr |-> <<"c","o","n","n">>, side |-> "src", field |-> "connectionString", path |-> ""]>>],
    [src |-> "azure.servicebus", dst |-> "azure.vm", structural |-> FALSE,
     exports |-> <<[attr |-> <<"q","u","e","u","e">>, side |-> "src", field |-> "queue", path |-> "name"], [attr |-> <<"c","o","n","n">>, side |-> "src", field |-> "connectionString", path |-> ""]>>],
    [src |-> "azure.servicebus", dst |-> "azure.apimanagement", structural |-> FALSE,
     exports |-> <<[attr |-> <<"q","u","e","u","e">>, side |-> "src", field |-> "queue", path |-> "name"], [attr |-> <<"c","o","n","n">>, side |-> "src", field |-> "connectionString", path |-> ""]>>],
    [src |-> "azure.sql", dst |-> "azure.storage", structural |-> FALSE,
     exports |-> <<[attr |-> <<"s","q","l","-","s","e","r","v","e","r">>, side |-> "src", field |-> "server", path |-> "fully_qualified_domain_name"], [attr |-> <<"s","q","l","-","d","a","t","a","b","a","s","e">>, side |-> "src", field |-> "database", path |-> "name"]>>],
    [src |-> "azure.sql", dst |-> "azure.servicebus", structural |-> FALSE,
     exports |-> <<[attr |-> <<"s","q","l","-","s","e","r","v","e","r">>, side |-> "src", field |-> "server", path |-> "fully_qualified_domain_name"], [attr |-> <<"s","q","l","-","d","a","t","a","b","a","s","e">>, side |-> "src", field |-> "database", path |-> "name"]>>],
    [src |-> "azure.cosmosdb", dst |-> "azure.storage", structural |-> FALSE,
     exports |-> <<[attr |-> <<"c","o","s","m","o","s","-","e","n","d","p","o","i","n","t">>, side |-> "src", field |-> "account", path |-> "document_endpoint"], [attr |-> <<"c","o","s","m","o","s","-","d","a","t","a","b","a","s","e">>, side |-> "src", field |-> "database", path |-> "name"]>>],
    [src |-> "azure.cosmosdb", dst |-> "azure.servicebus", structural |-> FALSE,
     exports |-> <<[attr |-> <<"c","o","s","m","o","s","-","e","n","d","p","o","i","n","t">>, side |-> "src", field |-> "account", path |-> "document_endpoint"], [attr |-> <<"c","o","s","m","o","s","-","d","a","t","a","b","a","s","e">>, side |-> "src", field |-> "database", path |-> "name"]>>],
    [src |-> "azure.keyvault", dst |-> "azure.sql", structural |-> FALSE,
     exports |-> <<[attr |-> <<"k","e","y","v","a","u","l","t","-","u","r","i">>, side |-> "src", field |-> "vault", path |-> "properties.vault_uri"], [attr |-> <<"k","e","y","v","a","u","l","t","-","n","a","m","e">>, side |-> "src", field |-> "vault", path |-> "name"]>>],
    [src |-> "azure.keyvault", dst |-> "azure.cosmosdb", structural |-> FALSE,
     exports |-> <<[attr |-> <<"k","e","y","v","a","u","l","t","-","u","r","i">>, side |-> "src", field |-> "vault", path |-> "properties.vault_uri"], [attr |-> <<"k","e","y","v","a","u","l","t","-","n","a","m","e">>, side |-> "src", field |-> "vault", path |-> "name"]>>],
    [src |-> "azure.keyvault", dst |-> "azure.vm", structural |-> FALSE,
     exports |-> <<[attr |-> <<"k","e","y","v","a","u","l","t","-","u","r","i">>, side |-> "src", field |-> "vault", path |-> "properties.vault_uri"], [attr |-> <<"k","e","y","v","a","u","l","t","-","n","a","m","e">>, side |-> "src", field |-> "vault", path |-> "name"]>>],
    [src |-> "azure.keyvault", dst |-> "azure.apimanagement", structural |-> FALSE,
     exports |-> <<[attr |-> <<"k","e","y","v","a","u","l","t","-","u","r","i">>, side |-> "src", field |-> "vault", path |-> "properties.vault_uri"], [attr |-> <<"k","e","y","v","a","u","l","t","-","n","a","m","e">>, side |-> "src", field |-> "vault", path |-> "name"]>>],
    [src |-> "azure.keyvault", dst |-> "azure.storage", structural |-> FALSE,
     exports |-> <<[attr |-> <<"k","e","y","v","a","u","l","t","-","u","r","i">>, side |-> "src", field |-> "vault", path |-> "properties.vault_uri"], [attr |-> <<"k","e","y","v","a","u","l","t","-","n","a","m","e">>, side |-> "src", field |-> "vault", path |-> "name"]>>],
    [src |-> "azure.keyvault", dst |-> "azure.servicebus", structural |-> FALSE,
     exports |-> <<[attr |-> <<"k","e","y","v","a","u","l","t","-","u","r","i">>, side |-> "src", field |-> "vault", path |-> "properties.vault_uri"], [attr |-> <<"k","e","y","v","a","u","l","t","-","n","a","m","e">>, side |-> "src", field |-> "vault", path |-> "name"]>>],
    [src |-> "azure.appinsights", dst |-> "azure.sql", structural |-> FALSE,
     exports |-> <<[attr |-> <<"a","p","p","i","n","s","i","g","h","t","s","-","k","e","y">>, side |-> "src", field |-> "insights", path |-> "instrumentation_key"], [attr |-> <<"a","p","p","i","n","s","i","g","h","t","s","-","c","o","n","n">>, side |-> "src", field |-> "insights", path |-> "connection_string"]>>],
    [src |-> "azure.appinsights", dst |-> "azure.cosmosdb", structural |-> FALSE,
     exports |-> <<[attr |-> <<"a","p","p","i","n","s","i","g","h","t","s","-","k","e","y">>, side |-> "src", field |-> "insights", path |-> "instrumentation_key"], [attr |-> <<"a","p","p","i","n","s","i","g","h","t","s","-","c","o","n","n">>, side |-> "src", field |-> "insights", path |-> "connection_string"]>>],
    [src |-> "azure.appinsights", dst |-> "azure.vm", structural |-> FALSE,
     exports |-> <<[attr |-> <<"a","p","p","i","n","s","i","g","h","t","s","-","k","e","y">>, side |-> "src", field |-> "insights", path |-> "instrumentation_key"], [attr |-> <<"a","p","p","i","n","s","i","g","h","t","s","-","c","o","n","n">>, side |-> "src", field |-> "insights", path |-> "connection_string"]>>],
    [src |-> "azure.appinsights", dst |-> "azure.apimanagement", structural |-> FALSE,
     exports |-> <<[attr |-> <<"a","p","p","i","n","s","i","g","h","t","s","-","k","e","y">>, side |-> "src", field |-> "insights", path |-> "instrumentation_key"], [attr |-> <<"a","p","p","i","n","s","i","g","h","t","s","-","c","o","n","n">>, side |-> "src", field |-> "insights", path |-> "connection_string"]>>],
    [src |-> "azure.appinsights", dst |-> "azure.storage", structural |-> FALSE,
     exports |-> <<[attr |-> <<"a","p","p","i","n","s","i","g","h","t","s","-","k","e","y">>, side |-> "src", field |-> "insights", path |-> "instrumentation_key"], [attr |-> <<"a","p","p","i","n","s","i","g","h","t","s","-","c","o","n","n">>, side |-> "src", field |-> "insights", path |-> "connection_string"]>>],
    [src |-> "azure.appinsights", dst |-> "azure.servicebus", structural |-> FALSE,
     exports |-> <<[attr |-> <<"a","p","p","i","n","s","i","g","h","t","s","-","k","e","y">>, side |-> "src", field |-> "insights", path |-> "instrumentation_key"], [attr |-> <<"a","p","p","i","n","s","i","g","h","t","s","-","c","o","n","n">>, side |-> "src", field |-> "insights", path |-> "connection_string"]>>],
    [src |-> "azure.apimanagement", dst |-> "azure.sql", structural |-> FALSE,
     exports |-> <<[attr |-> <<"a","p","i","m","-","g","a","t","e","w","a","y">>, side |-> "src", field |-> "service", path |-> "gateway_url"], [attr |-> <<"a","p","i","m","-","p","o","r","t","a","l">>, side |-> "src", field |-> "service", path |-> "portal_url"]>>],
    [src |-> "azure.apimanagement", dst |-> "azure.cosmosdb", structural |-> FALSE,
     exports |-> <<[attr |-> <<"a","p","i","m","-","g","a","t","e","w","a","y">>, side |-> "src", field |-> "service", path |-> "gateway_url"], [attr |-> <<"a","p","i","m","-","p","o","r","t","a","l">>, side |-> "src", field |-> "service", path |-> "portal_url"]>>],
    [src |-> "azure.apimanagement", dst |-> "azure.vm", structural |-> FALSE,
     exports |-> <<[attr |-> <<"a","p","i","m","-","g","a","t","e","w","a","y">>, side |-> "src", field |-> "service", path |-> "gateway_url"], [attr |-> <<"a","p","i","m","-","p","o","r","t","a","l">>, side |-> "src", field |-> "service", path |-> "portal_url"]>>],
    [src |-> "azure.apimanagement", dst |-> "azure.storage", structural |-> FALSE,
     exports |-> <<[attr |-> <<"a","p","i","m","-","g","a","t","e","w","a","y">>, side |-> "src", field |-> "service", path |-> "gateway_url"], [attr |-> <<"a","p","i","m","-","p","o","r","t","a","l">>, side |-> "src", field |-> "service", path |-> "portal_url"]>>],
    [src |-> "azure.apimanagement", dst |-> "azure.servicebus", structural |-> FALSE,
     exports |-> <<[attr |-> <<"a","p","i","m","-","g","a","t","e","w","a","y">>, side |-> "src", field |-> "service", path |-> "gateway_url"], [attr |-> <<"a","p","i","m","-","p","o","r","t","a","l">>, side |-> "src", field |-> "service", path |-> "portal_url"]>>],
    [src |-> "azure.vnet", dst |-> "azure.vm", structural |-> FALSE,
     exports |-> <<[attr |-> <<"v","n","e","t","-","i","d">>, side |-> "src", field |-> "vnet", path |-> "id"], [attr |-> <<"v","n","e","t","-","n","a","m","e">>, side |-> "src", field |-> "vnet", path |-> "name"]>>],
    [src |-> "azure.vnet", dst |-> "azure.containerapp", structural |-> FALSE,
     exports |-> <<[attr |-> <<"v","n","e","t","-","i","d">>, side |-> "src", field |-> "vnet", path |-> "id"], [attr |-> <<"v","n","e","t","-","n","a","m","e">>, side |-> "src", field |-> "vnet", path |-> "name"]>>],
    [src |-> "azure.vnet", dst |-> "azure.functionapp", structural |-> FALSE,
     exports |-> <<[attr |-> <<"v","n","e","t","-","i","d">>, side |-> "src", field |-> "vnet", path |-> "id"], [attr |-> <<"v","n","e","t","-","n","a","m","e">>, side |-> "src", field |-> "vnet", path |-> "name"]>>],
    [src |-> "azure.vnet", dst |-> "azure.sql", structural |-> FALSE,
     exports |-> <<[attr |-> <<"v","n","e","t","-","i","d">>, side |-> "src", field |-> "vnet", path |-> "id"], [attr |-> <<"v","n","e","t","-","n","a","m","e">>, side |-> "src", field |-> "vnet", path |-> "name"]>>],
    [src |-> "azure.vnet", dst |-> "azure.cosmosdb", structural |-> FALSE,
     exports |-> <<[attr |-> <<"v","n","e","t","-","i","d">>, side |-> "src", field |-> "vnet", path |-> "id"], [attr |-> <<"v","n","e","t","-","n","a","m","e">>, side |-> "src", field |-> "vnet", path |-> "name"]>>],
    [src |-> "azure.vnet", dst |-> "azure.storage", structural |-> FALSE,
     exports |-> <<[attr |-> <<"v","n","e","t","-","i","d">>, side |-> "src", field |-> "vnet", path |-> "id"], [attr |-> <<"v","n","e","t","-","n","a","m","e">>, side |-> "src", field |-> "vnet", path |-> "name"]>>],
    [src |-> "azure.vnet", dst |-> "azure.servicebus", structural |-> FALSE,
     exports |-> <<[attr |-> <<"v","n","e","t","-","i","d">>, side |-> "src", field |-> "vnet", path |-> "id"], [attr |-> <<"v","n","e","t","-","n","a","m","e">>, side |-> "src", field |-> "vnet", path |-> "name"]>>],
    [src |-> "azure.vnet", dst |-> "azure.apimanagement", structural |-> FALSE,
     exports |-> <<[attr |-> <<"v","n","e","t","-","i","d">>, side |-> "src", field |-> "vnet", path |-> "id"], [attr |-> <<"v","n","e","t","-","n","a","m","e">>, side |-> "src", field |-> "vnet", path |-> "name"]>>],
    [src |-> "azure.vnet", dst |-> "azure.keyvault", structural |-> FALSE,
     exports |-> <<[attr |-> <<"v","n","e","t","-","i","d">>, side |-> "src", field |-> "vnet", path |-> "id"], [attr |-> <<"v","n","e","t","-","n","a","m","e">>, side |-> "src", field |-> "vnet", path |-> "name"]>>],
    [src |-> "azure.vnet", dst |-> "azure.appinsights", structural |-> FALSE,
     exports |-> <<[attr |-> <<"v","n","e","t","-","i","d">>, side |-> "src", field |-> "vnet", path |-> "id"], [attr |-> <<"v","n","e","t","-","n","a","m","e">>, side |-> "src", field |-> "vnet", path |-> "name"]>>],
    [src |-> "azure.functionapp", dst |-> "azure.containerapp", structural |-> FALSE,
     exports |-> <<[attr |-> <<"f","u","n","c","t","i","o","n","a","p","p","-","u","r","l">>, side |-> "src", field |-> "app", path |-> "default_host_name"], [attr |-> <<"f","u","n","c","t","i","o","n","a","p","p","-","n","a","m","e">>, side |-> "src", field |-> "app", path |-> "name"]>>],
    [src |-> "azure.containerapp", dst |-> "azure.functionapp", structural |-> FALSE,
     exports |-> <<[attr |-> <<"c","o","n","t","a","i","n","e","r","a","p","p","-","f","q","d","n">>, side |-> "src", field |-> "app", path |-> "configuration.ingress.fqdn"], [attr |-> <<"c","o","n","t","a","i","n","e","r","a","p","p","-","n","a","m","e">>, side |-> "src", field |-> "app", path |-> "name"]>>],
    [src |-> "azure.vm", dst |-> "azure.storage", structural |-> FALSE,
     exports |-> <<[attr |-> <<"s","t","o","r","a","g","e","-","c","o","n","n">>, side |-> "dst", field |-> "connectionString", path |-> ""], [attr |-> <<"s","t","o","r","a","g","e","-","a","c","c","o","u","n","t">>, side |-> "dst", field |-> "account", path |-> "name"]>>],
    [src |-> "azure.vm", dst |-> "azure.servicebus", structural |-> FALSE,
     exports |-> <<[attr |-> <<"q","u","e","u","e">>, side |-> "dst", field |-> "queue", path |-> "name"], [attr |-> <<"c","o","n","n">>, side |-> "dst", field |-> "connectionString", path |-> ""]>>],
    [src |-> "azure.vm", dst |-> "azure.containerapp", structural |-> FALSE,
     exports |-> <<[attr |-> <<"c","o","n","t","a","i","n","e","r","a","p","p","-","f","q","d","n">>, side |-> "dst", field |-> "app", path |-> "configuration.ingress.fqdn"], [attr |-> <<"c","o","n","t","a","i","n","e","r","a","p","p","-","n","a","m","e">>, side |-> "dst", field |-> "app", path |-> "name"]>>],
    [src |-> "azure.vm", dst |-> "azure.functionapp", structural |-> FALSE,
     exports |-> <<[attr |-> <<"f","u","n","c","t","i","o","n","a","p","p","-","u","r","l">>, side |-> "dst", field |-> "app", path |-> "default_host_name"], [attr |-> <<"f","u","n","c","t","i","o","n","a","p","p","-","n","a","m","e">>, side |-> "dst", field |-> "app", path |-> "name"]>>],
    [src |-> "azure.vm", dst |-> "azure.sql", structural |-> FALSE,
     exports |-> <<[attr |-> <<"s","q","l","-","s","e","r","v","e","r">>, side |-> "dst", field |-> "server", path |-> "fully_qualified_domain_name"], [attr |-> <<"s","q","l","-","d","a","t","a","b","a","s","e">>, side |-> "dst", field |-> "database", path |-> "name"]>>],
    [src |-> "azure.vm", dst |-> "azure.cosmosdb", structural |-> FALSE,
     exports |-> <<[attr |-> <<"c","o","s","m","o","s","-","e","n","d","p","o","i","n","t">>, side |-> "dst", field |-> "account", path |-> "document_endpoint"], [attr |-> <<"c","o","s","m","o","s","-","d","a","t","a","b","a","s","e">>, side |-> "dst", field |-> "database", path |-> "name"], [attr |-> <<"c","o","s","m","o","s","-","c","o","n","t","a","i","n","e","r">>, side |-> "dst", field |-> "container", path |-> "name"]>>],
    [src |-> "azure.vm", dst |-> "azure.keyvault", structural |-> FALSE,
     exports |-> <<[attr |-> <<"k","e","y","v","a","u","l","t","-","u","r","i">>, side |-> "dst", field |-> "vault", path |-> "properties.vault_uri"], [attr |-> <<"k","e","y","v","a","u","l","t","-","n","a","m","e">>, side |-> "dst", field |-> "vault", path |-> "name"]>>],
    [src |-> "azure.vm", dst |-> "azure.appinsights", structural |-> FALSE,
     exports |-> <<[attr |-> <<"a","p","p","i","n","s","i","g","h","t","s","-","k","e","y">>, side |-> "dst", field |-> "insights", path |-> "instrumentation_key"], [attr |-> <<"a","p","p","i","n","s","i","g","h","t","s","-","c","o","n","n">>, side |-> "dst", field |-> "insights", path |-> "connection_string"]>>],
    [src |-> "azure.vm", dst |-> "azure.apimanagement", structural |-> FALSE,
     exports |-> <<[attr |-> <<"a","p","i","m","-","g","a","t","e","w","a","y">>, side |-> "dst", field |-> "service", path |-> "gateway_url"], [attr |-> <<"a","p","i","m","-","p","o","r","t","a","l">>, side |-> "dst", field |-> "service", path |-> "portal_url"]>>],
    [src |-> "azure.vm", dst |-> "azure.vnet", structural |-> FALSE,
     exports |-> <<[attr |-> <<"v","n","e","t","-","i","d">>, side |-> "dst", field |-> "vnet", path |-> "id"], [attr |-> <<"v","n","e","t","-","n","a","m","e">>, side |-> "dst", field |-> "vnet", path |-> "name"]>>]
>>

----------------------------------------------------------------------------
(* service_registry.py                                                     *)

NoCreator == "None"

\* dict.get(kind) on a registry table: the creator of the kind, else None
RegistryGet(table, kind) ==
    IF \E i \in 1..Len(table) : table[i].kind = kind
    THEN table[CHOOSE i \in 1..Len(table) : table[i].kind = kind].creator
    ELSE NoCreator

\* ", ".join(table.keys()): the kinds in insertion order
JoinKeys(table) == [i \in 1..Len(table) |-> table[i].kind]

\* ValueError(f"Unsupported kind: {kind}. Supported kinds: {supported}")
UnsupportedKind(kind, supported) ==
    [exc |-> "ValueError", text |-> "Unsupported kind", kind |-> kind,
     supported |-> supported]

NoError == [exc |-> "none", text |-> "", kind |-> "", supported |-> <<>>]

\* get_creator with a fallback creator in place of the raise
get_creator_Fallback(kind) ==
    LET creator == RegistryGet(ServiceRegistryTable, kind)
    IN  [raised |-> FALSE,
         creator |-> IF creator # NoCreator THEN creator ELSE "_create_storage",
         error |-> NoError]

\* ServiceRegistry.get_creator(kind)
get_creator(kind) ==
    LET creator == RegistryGet(ServiceRegistryTable, kind)
    IN  IF creator # NoCreator
        THEN [raised |-> FALSE, creator |-> creator, error |-> NoError]
        ELSE [raised |-> TRUE, creator |-> NoCreator,
              error |-> UnsupportedKind(kind, JoinKeys(ServiceRegistryTable))]

\* ServiceRegistry.get_supported_kinds()
get_supported_kinds == JoinKeys(ServiceRegistryTable)

\* ServiceRegistry.is_supported(kind)
is_supported(kind) == \E i \in 1..Len(ServiceRegistryTable) : ServiceRegistryTable[i].kind = kind

----------------------------------------------------------------------------
(* str.lower                                                               *)

Uppercase == <<"A","B","C","D","E","F","G","H","I","J","K","L","M",
               "N","O","P","Q","R","S","T","U","V","W","X","Y","Z">>
Lowercase == <<"a","b","c","d","e","f","g","h","i","j","k","l","m",
               "n","o","p","q","r","s","t","u","v","w","x","y","z">>

LowerChar(c) ==
    IF \E i \in 1..Len(Uppercase) : Uppercase[i] = c
    THEN Lowercase[CHOOSE i \in 1..Len(Uppercase) : Uppercase[i] = c]
    ELSE c

\* s.lower()
Lower(s) == IF s = <<>> THEN <<>> ELSE [i \in 1..Len(s) |-> LowerChar(s[i])]

----------------------------------------------------------------------------
(* azure_fabric.py: the account name _create_storage gives the provider    *)

\* One character outside ASCII that str.isalnum and str.isalpha accept and
\* str.lower leaves alone (U+4E2D, a caseless letter); it stands as one
\* element of a str, like every other character.
NonAsciiLetter == "U+4E2D"

\* ch.isalnum()
isalnum(ch) ==
    ch \in AsciiLower \cup AsciiUpper \cup AsciiDigit \cup {NonAsciiLetter}

\* ch.isalpha()
isalpha(ch) == ch \in AsciiLower \cup AsciiUpper \cup {NonAsciiLetter}

\* "".join(ch for ch in raw if ch.isalnum())
Alnums(raw) == SelectSeq(raw, isalnum)

MinAccountName == 3
MaxAccountName == 24

DefaultAccountName == <<"s","t","o","r","a","g","e">>

\* props.get("accountName") or (node.get("name") or node["id"])
Desired(node) ==
    PyOr(Get(Get(node, "props", EmptyDict), "accountName", None),
         PyOr(Get(node, "name", None), node.id))

\* the short name padded with "stx" and cut to three characters
PadShort(s) ==
    IF Len(s) < MinAccountName THEN Take(s \o <<"s","t","x">>, MinAccountName) ELSE s

\* the long name cut to 24 characters
CutLong(s) == IF Len(s) > MaxAccountName THEN Take(s, MaxAccountName) ELSE s

\* "st" put in front of every name
LetterFirst_Always(s) == Take(<<"s","t">> \o s, MaxAccountName)

\* "st" put in front of a name whose first character is not a letter
LetterFirst(s) ==
    IF ~isalpha(s[1]) THEN Take(<<"s","t">> \o s, MaxAccountName) ELSE s

\* sa_name of _create_storage
sa_name(node) ==
    LetterFirst(CutLong(PadShort(
        Alnums(Lower(PyOr(Desired(node), DefaultAccountName))))))

----------------------------------------------------------------------------
(* azure_fabric.py: the creators                                           *)

CreatorNamed(c) == Creators[CHOOSE i \in 1..Len(Creators) : Creators[i].creator = c]

\* the logical name with the number of the compiler run put behind it
LogicalName_RunStamped(desc, node) ==
    Take(safe_name(PyOr(node.name, node.id)), desc.cut) \o
        (IF fb_prev.ran THEN <<"-","2">> ELSE <<"-","1">>)

\* name = safe_name(node.get("name") or node["id"])[:cut]
LogicalName(desc, node) == Take(safe_name(PyOr(node.name, node.id)), desc.cut)

\* the provider resources a creator declares for a node, in declaration order
Declared(desc, node) ==
    LET name == LogicalName(desc, node)
        base == [i \in 1..Len(desc.resources) |->
                    [type |-> desc.resources[i].type,
                     name |-> Cat(<<desc.resources[i].pre, name, desc.resources[i].suf>>)]]
        \* _create_storage: the blob container, when props.containerName is given
        blob == IF desc.kind = "azure.storage" /\ Truthy(Get(node.props, "containerName", None))
                THEN <<[type |-> "storage.BlobContainer", name |-> Cat(<<<<"b","c","-">>, name>>)]>>
                ELSE <<>>
        \* _create_virtual_network: one subnet per entry of props.subnets (default one)
        nsub == IF desc.kind = "azure.vnet" THEN Get(node.props, "subnets", 1) ELSE 0
        subnets == [i \in 1..nsub |->
                    [type |-> "network.Subnet",
                     name |-> Cat(<<<<"s","u","b","n","e","t","-">>, name, <<"-">>, IntStr(i - 1)>>)]]
    IN  base \o blob \o subnets

\* the dict stored in node_index[node["id"]]: its "kind" and the handles it holds
Record(desc, node) ==
    [kind |-> desc.kind, owner |-> node.id,
     fields |-> desc.fields \cup
        \* _create_storage stores "container": None without props.containerName
        (IF desc.kind = "azure.storage" /\ Truthy(Get(node.props, "containerName", None))
         THEN {"container"} ELSE {})]

NoRecord == [kind |-> "None", owner |-> None, fields |-> {}]

\* the keys written to self._outputs: f"{domain}-{name}-{attr}"
OutputKeys(desc, node) ==
    [i \in 1..Len(desc.attrs) |->
        Cat(<<desc.domain, <<"-">>, LogicalName(desc, node), <<"-">>, desc.attrs[i]>>)]

RECURSIVE PutAll(_, _, _)
PutAll(d, keys, owner) ==
    IF keys = <<>> THEN d
    ELSE PutAll(Put(d, Head(keys), [owner |-> owner, key |-> Head(keys)]), Tail(keys), owner)

\* name.replace('-', '')
RemoveHyphens(s) == SelectSeq(s, LAMBDA c : c # "-")

\* The names a creator hands to the provider itself (a *_name argument that
\* is not the handle of another resource), in declaration order: storage
\* account_name and container_name, servicebus queue_name, the vm's
\* computer_name and the function app's storage account_name.
ProviderNames(desc, node) ==
    LET name == LogicalName(desc, node)
    IN  IF desc.kind = "azure.storage"
        THEN <<[arg |-> "account_name", value |-> sa_name(node)]>> \o
             (IF Truthy(Get(node.props, "containerName", None))
              THEN <<[arg |-> "container_name", value |-> node.props.containerName]>>
              ELSE <<>>)
        ELSE IF desc.kind = "azure.servicebus"
        THEN <<[arg |-> "queue_name",
                value |-> Get(node.props, "queueName", <<"q","-">> \o name)]>>
        ELSE IF desc.kind = "azure.vm"
        THEN <<[arg |-> "computer_name", value |-> name]>>
        ELSE IF desc.kind = "azure.functionapp"
        THEN <<[arg |-> "account_name",
                value |-> Take(RemoveHyphens(name), 20) \o <<"f","u","n","c">>]>>
        ELSE <<>>

----------------------------------------------------------------------------
(* azure_fabric.py: _connect                                               *)

NoConnector == [src |-> "None", dst |-> "None", structural |-> FALSE, exports |-> <<>>]

\* the chain with a catch-all branch in place of the final else
ConnectorFor_CatchAll(srcKind, dstKind) ==
    LET hits == {i \in 1..Len(Connectors) :
                    Connectors[i].src = srcKind /\ Connectors[i].dst = dstKind}
    IN  IF hits = {} THEN Connectors[2]
        ELSE Connectors[CHOOSE i \in hits : \A j \in hits : i <= j]

\* the first branch of the chain whose two kind tests hold, else the final else
ConnectorFor(srcKind, dstKind) ==
    LET hits == {i \in 1..Len(Connectors) :
                    Connectors[i].src = srcKind /\ Connectors[i].dst = dstKind}
    IN  IF hits = {} THEN NoConnector
        ELSE Connectors[CHOOSE i \in hits : \A j \in hits : i <= j]

\* from_id read under the field name alone
FromId_FieldNameOnly(edge) == Get(edge, "from_", None)

\* from_id = edge.get("from") or edge.get("from_")
FromId(edge) == PyOr(Get(edge, "from", None), Get(edge, "from_", None))

\* to_id = edge.get("to") or edge.get("to_")
ToId(edge) == PyOr(Get(edge, "to", None), Get(edge, "to_", None))

\* intent = edge.get("intent", "notify")
Intent(edge) == Get(edge, "intent", "notify")

\* sub_name = f"egsub-{safe_name(from_id)}-to-{safe_name(to_id)}"
SubName(from_id, to_id) ==
    Cat(<<<<"e","g","s","u","b","-">>, safe_name(from_id), <<"-","t","o","-">>, safe_name(to_id)>>)

\* f"bind-{safe_name(to_id)}-{attr}"
BindKey(to_id, attr) == Cat(<<<<"b","i","n","d","-">>, safe_name(to_id), <<"-">>, attr>>)

\* What one call of _connect does: the warning it logs (or none), the
\* resources it declares, the binding it wires and the pulumi.export calls.
Skip(warning) == [warn |-> warning, declared |-> <<>>, bound |-> <<>>, exported |-> <<>>]

\* lines 662-1092: the chain, entered with both endpoints present and intent "notify"
ConnectMatched(index, from_id, to_id) ==
    LET src == Get(index, from_id, NoRecord)
        dst == Get(index, to_id, NoRecord)
        c == ConnectorFor(src.kind, dst.kind)
    IN  IF c = NoConnector
        THEN Skip("No connector")
        ELSE IF c.structural
        THEN [warn |-> "",
              declared |-> <<[type |-> "eventgrid.EventSubscription",
                              name |-> SubName(from_id, to_id)]>>,
              bound |-> <<[name |-> SubName(from_id, to_id),
                           scope |-> src.owner, destination |-> dst.owner]>>,
              exported |-> <<>>]
        ELSE [warn |-> "", declared |-> <<>>, bound |-> <<>>,
              exported |-> [i \in 1..Len(c.exports) |->
                  [key |-> BindKey(to_id, c.exports[i].attr),
                   owner |-> IF c.exports[i].side = "src" THEN src.owner ELSE dst.owner,
                   field |-> c.exports[i].field,
                   path |-> c.exports[i].path]]]

\* _connect with the intent test left out
ConnectOutcome_NoIntentTest(index, edge) ==
    IF ~Truthy(FromId(edge)) \/ ~Truthy(ToId(edge))
    THEN Skip("Edge missing endpoints")
    ELSE ConnectMatched(index, FromId(edge), ToId(edge))

\* _connect(edge) against the current node_index
ConnectOutcome(index, edge) ==
    IF ~Truthy(FromId(edge)) \/ ~Truthy(ToId(edge))
    THEN Skip("Edge missing endpoints")
    ELSE IF Intent(edge) # "notify"
    THEN Skip("Unsupported intent")
    ELSE ConnectMatched(index, FromId(edge), ToId(edge))

----------------------------------------------------------------------------
(* Inputs of the compiler specification                                    *)

\* the second id holds a character that safe_name replaces
IdInputs == {<<"s","1">>, <<"q","_","1">>}

\* three registered kinds (a structural pair, descriptive pairs in both
\* directions, unsupported pairs) and one unregistered kind
KindInputs == {"azure.storage", "azure.servicebus", "azure.vm", "not-a-real-kind"}

NodeInputs ==
    {[id |-> i, kind |-> k, name |-> None, props |-> EmptyDict] :
        i \in IdInputs, k \in KindInputs}

\* a notify edge in either direction (the second as model_dump() writes it,
\* under the field name from_), another intent, and an edge missing either end
EdgeInputs ==
    {[from |-> <<"s","1">>, to |-> <<"q","_","1">>, intent |-> "notify"],
     [from_ |-> <<"q","_","1">>, to |-> <<"s","1">>, intent |-> "notify"],
     [from |-> <<"s","1">>, to |-> <<"q","_","1">>, intent |-> "depends"],
     [to |-> <<"q","_","1">>, intent |-> "depends"],
     [from |-> <<"s","1">>]}

MaxNodes == 2
MaxEdges == 2

RECURSIVE SeqsOfLen(_, _)
SeqsOfLen(S, n) ==
    IF n = 0 THEN {<<>>}
    ELSE {Append(s, x) : s \in SeqsOfLen(S, n - 1), x \in S}

SeqsUpTo(S, n) == UNION {SeqsOfLen(S, k) : k \in 0..n}

IRInputs ==
    {[nodes |-> ns, edges |-> es] :
        ns \in SeqsUpTo(NodeInputs, MaxNodes), es \in SeqsUpTo(EdgeInputs, MaxEdges)}

RegisteredKinds == {FabricRegistry[i].kind : i \in 1..Len(FabricRegistry)}

\* the kinds ServiceRegistry is asked about: every registered kind, the
\* empty string and two unregistered strings
LookupInputs == RegisteredKinds \cup {"", "not-a-real-kind", "azure.Storage"}

----------------------------------------------------------------------------
(* Specification of the fabric compiler and the service registry           *)

NoIR == [nodes |-> <<>>, edges |-> <<>>]

\* no compiler has run on the ir before this one
NoRun == [ran |-> FALSE]

NoCall == [op |-> "none", kind |-> "", raised |-> FALSE, creator |-> NoCreator,
           error |-> NoError, kinds |-> <<>>, supported |-> FALSE]

FabricIdle ==
    /\ fb_pc = "idle"
    /\ fb_ir = NoIR
    /\ fb_ni = 1
    /\ fb_ei = 1
    /\ node_index = EmptyDict
    /\ _outputs = EmptyDict
    /\ fb_created = <<>>
    /\ fb_resources = <<>>
    /\ fb_named = <<>>
    /\ fb_prev = NoRun
    /\ fb_bindings = <<>>
    /\ fb_exports = <<>>
    /\ fb_log = <<>>
    /\ fb_error = NoError
    /\ sr_last = NoCall

NamingIdle ==
    /\ nm_pc = "idle"
    /\ nm_arg = None
    /\ nm_ret = None

NoReport == [valid |-> FALSE, errors |-> <<>>, warnings |-> <<>>, suggestions |-> <<>>]

ValidatorIdle ==
    /\ vl_pc = "idle"
    /\ vl_ir = NoIR
    /\ vl_report = NoReport
    /\ vl_error = NoError

\* creds is None (an empty dict is as falsy)
NoCreds == EmptyDict

\* no exception raised: an exception is its args and its str()
NoException == [args |-> <<>>, str |-> <<>>]

\* no request yet
NoRequest == [op |-> "none"]

\* no response yet
NoResult == [status |-> 0]

\* the threads of the pool that run the handlers (they are plain def
\* functions, which the framework runs on worker threads)
Threads == {"t1", "t2"}

\* a thread that runs no handler
IdleThread == [pc |-> "idle", req |-> NoRequest, ambient |-> EmptyDict]

\* the process has started: no ARM_* variable set, no stack in the backend
EngineIdle ==
    /\ en_pc = "idle"
    /\ en_req = NoRequest
    /\ en_known = FALSE
    /\ en_exc = NoException
    /\ en_creds = NoCreds
    /\ en_validation = NoReport
    /\ en_calls = <<>>
    /\ en_result = NoResult
    /\ environ = EmptyDict
    /\ stacks = EmptyDict
    /\ th = [t \in Threads |-> IdleThread]

UnwrapIdle ==
    /\ uw_pc = "idle"
    /\ uw_arg = None
    /\ uw_ret = None

Init == FabricIdle /\ NamingIdle /\ ValidatorIdle /\ EngineIdle /\ UnwrapIdle

\* apply_ir with the loop over the edges put before the loop over the nodes
PcAt_EdgesFirst(ir, ni, ei) ==
    IF ei <= Len(ir.edges) THEN "edges"
    ELSE IF ni <= Len(ir.nodes) THEN "nodes"
    ELSE "returned"

\* where apply_ir stands once ni nodes and ei edges are behind it
PcAt(ir, ni, ei) ==
    IF ni <= Len(ir.nodes) THEN "nodes"
    ELSE IF ei <= Len(ir.edges) THEN "edges"
    ELSE "returned"

\* AzureFabric(...).apply_ir(ir) is entered
\* (a ServiceRegistry call changes sr_last alone, which is reset here, so
\* the call is taken from the idle state proper)
ApplyIrCall ==
    /\ fb_pc = "idle"
    /\ sr_last = NoCall
    /\ \E ir \in IRInputs :
        /\ fb_ir' = ir
        /\ fb_pc' = PcAt(ir, 1, 1)
    /\ sr_last' = NoCall
    /\ UNCHANGED <<fb_ni, fb_ei, node_index, _outputs, fb_created, fb_resources,
                   fb_named, fb_prev, fb_bindings, fb_exports, fb_log, fb_error,
                   nm_vars, vl_vars, en_vars, uw_vars>>

\* one iteration of "for n in nodes" with a registered kind: creator(n)
CreateNode ==
    /\ fb_pc = "nodes"
    /\ LET n == fb_ir.nodes[fb_ni]
           creator == RegistryGet(FabricRegistry, n.kind)
       IN  /\ creator # NoCreator
           /\ LET desc == CreatorNamed(creator)
              IN  /\ fb_resources' = fb_resources \o Declared(desc, n)
                  /\ fb_named' = fb_named \o ProviderNames(desc, n)
                  /\ node_index' = Put(node_index, n.id, Record(desc, n))
                  /\ _outputs' = PutAll(_outputs, OutputKeys(desc, n), n.id)
                  /\ fb_created' = Append(fb_created, [creator |-> creator, node |-> fb_ni])
    /\ fb_ni' = fb_ni + 1
    /\ fb_pc' = PcAt(fb_ir, fb_ni + 1, fb_ei)
    /\ UNCHANGED <<fb_ir, fb_ei, fb_prev, fb_bindings, fb_exports, fb_log, fb_error, sr_last,
                   nm_vars, vl_vars, en_vars, uw_vars>>

\* the unregistered kind skipped instead of raised
RaiseUnsupportedKind_Skip ==
    /\ fb_pc = "nodes"
    /\ RegistryGet(FabricRegistry, fb_ir.nodes[fb_ni].kind) = NoCreator
    /\ fb_ni' = fb_ni + 1
    /\ fb_pc' = PcAt(fb_ir, fb_ni + 1, fb_ei)
    /\ UNCHANGED <<fb_ir, fb_ei, node_index, _outputs, fb_created, fb_resources,
                   fb_named, fb_prev, fb_bindings, fb_exports, fb_log, fb_error, sr_last,
                   nm_vars, vl_vars, en_vars, uw_vars>>

\* one iteration of "for n in nodes" with an unregistered kind: raise ValueError
RaiseUnsupportedKind ==
    /\ fb_pc = "nodes"
    /\ LET n == fb_ir.nodes[fb_ni]
       IN  /\ RegistryGet(FabricRegistry, n.kind) = NoCreator
           /\ fb_error' = UnsupportedKind(n.kind, JoinKeys(FabricRegistry))
    /\ fb_pc' = "raised"
    /\ UNCHANGED <<fb_ir, fb_ni, fb_ei, node_index, _outputs, fb_created, fb_resources,
                   fb_named, fb_prev, fb_bindings, fb_exports, fb_log, sr_last,
                   nm_vars, vl_vars, en_vars, uw_vars>>

\* one iteration of "for e in edges": self._connect(e)
Connect ==
    /\ fb_pc = "edges"
    /\ LET out == ConnectOutcome(node_index, fb_ir.edges[fb_ei])
       IN  /\ fb_log' = IF out.warn = "" THEN fb_log
                        ELSE Append(fb_log, [warn |-> out.warn, edge |-> fb_ei])
           /\ fb_resources' = fb_resources \o out.declared
           /\ fb_bindings' = fb_bindings \o
                [i \in 1..Len(out.bound) |->
                    [name |-> out.bound[i].name, scope |-> out.bound[i].scope,
                     destination |-> out.bound[i].destination, edge |-> fb_ei]]
           /\ fb_exports' = fb_exports \o
                [i \in 1..Len(out.exported) |->
                    [key |-> out.exported[i].key, owner |-> out.exported[i].owner,
                     field |-> out.exported[i].field, path |-> out.exported[i].path,
                     edge |-> fb_ei]]
    /\ fb_ei' = fb_ei + 1
    /\ fb_pc' = PcAt(fb_ir, fb_ni, fb_ei + 1)
    /\ UNCHANGED <<fb_ir, fb_ni, node_index, _outputs, fb_created, fb_named, fb_prev, fb_error,
                   sr_last, nm_vars, vl_vars, en_vars, uw_vars>>

fb_only == <<fb_pc, fb_ir, fb_ni, fb_ei, node_index, _outputs, fb_created,
             fb_resources, fb_bindings, fb_exports, fb_log, fb_error,
             fb_named, fb_prev>>

\* ServiceRegistry(fabric).get_creator(kind)
GetCreator ==
    /\ fb_pc = "idle"
    /\ \E kind \in LookupInputs :
        LET r == get_creator(kind)
        IN  sr_last' = [NoCall EXCEPT !.op = "get_creator", !.kind = kind,
                           !.raised = r.raised, !.creator = r.creator, !.error = r.error]
    /\ UNCHANGED <<fb_only, nm_vars, vl_vars, en_vars, uw_vars>>

\* ServiceRegistry(fabric).get_supported_kinds()
GetSupportedKinds ==
    /\ fb_pc = "idle"
    /\ sr_last' = [NoCall EXCEPT !.op = "get_supported_kinds", !.kinds = get_supported_kinds]
    /\ UNCHANGED <<fb_only, nm_vars, vl_vars, en_vars, uw_vars>>

\* ServiceRegistry(fabric).is_supported(kind)
IsSupported ==
    /\ fb_pc = "idle"
    /\ \E kind \in LookupInputs :
        sr_last' = [NoCall EXCEPT !.op = "is_supported", !.kind = kind,
                       !.supported = is_supported(kind)]
    /\ UNCHANGED <<fb_only, nm_vars, vl_vars, en_vars, uw_vars>>

Next ==
    \/ ApplyIrCall
    \/ CreateNode
    \/ RaiseUnsupportedKind
    \/ Connect
    \/ GetCreator
    \/ GetSupportedKinds
    \/ IsSupported

Spec == Init /\ [][Next]_vars

----------------------------------------------------------------------------
(* Inputs of the naming specification                                      *)

\* the characters inputs are made of: a lower-case letter, an upper-case
\* letter, a digit, the hyphen and one character outside the safe class
Alphabet == {"a", "Z", "7", "-", "_"}

MaxLen == 3

RECURSIVE StrsOfLen(_)
StrsOfLen(n) ==
    IF n = 0 THEN {<<>>}
    ELSE {Append(s, c) : s \in StrsOfLen(n - 1), c \in Alphabet}

ShortStrs == UNION {StrsOfLen(n) : n \in 0..MaxLen}

\* MaxNameLen - 1 letters: a short string appended to it straddles the cut
Pad == [i \in 1..(MaxNameLen - 1) |-> "a"]

NameInputs == ShortStrs \cup {Pad \o s : s \in ShortStrs}

----------------------------------------------------------------------------
(* Specification of the naming sanitizer                                   *)

NamingInit ==
    /\ FabricIdle
    /\ ValidatorIdle
    /\ EngineIdle
    /\ UnwrapIdle
    /\ nm_pc = "call"
    /\ nm_arg \in NameInputs
    /\ nm_ret = None

SafeNameCall ==
    /\ nm_pc = "call"
    /\ nm_ret' = safe_name(nm_arg)
    /\ nm_pc' = "return"
    /\ UNCHANGED <<nm_arg, fb_vars, vl_vars, en_vars, uw_vars>>

NamingNext == SafeNameCall

SpecNaming == NamingInit /\ [][NamingNext]_vars

----------------------------------------------------------------------------
(* C1: for every input string, safe_name returns a string that contains    *)
(* only characters of [A-Za-z0-9-], has length at most 63, and neither     *)
(* starts nor ends with '-'.                                               *)
C1_SafeNameShape ==
    nm_pc = "return" =>
        /\ \A i \in 1..Len(nm_ret) : nm_ret[i] \in SafeChars
        /\ Len(nm_ret) <= 63
        /\ nm_ret # <<>> => (nm_ret[1] # "-" /\ nm_ret[Len(nm_ret)] # "-")

\* an input longer than 63 whose 63rd character is replaced by '-' and then
\* stripped after the cut
C1_Witness ==
    /\ nm_pc = "return"
    /\ Len(nm_arg) > 63
    /\ nm_arg[63] \notin SafeChars
    /\ Len(nm_ret) = 62

----------------------------------------------------------------------------
(* Vocabulary of the compiler claims                                       *)

\* edge j of the ir has been through _connect
EdgeDone(j) == fb_pc \in {"edges", "returned"} /\ j < fb_ei

WarnsOf(j) == {i \in 1..Len(fb_log) : fb_log[i].edge = j}
BindingsOf(j) == {i \in 1..Len(fb_bindings) : fb_bindings[i].edge = j}
ExportsOf(j) == {i \in 1..Len(fb_exports) : fb_exports[i].edge = j}

\* the kind recorded for a node id, "None" without a record
KindAt(id) == Get(node_index, id, NoRecord).kind

\* the chain has a branch for the ordered pair
SupportedPair(sk, dk) ==
    \E i \in 1..Len(Connectors) : Connectors[i].src = sk /\ Connectors[i].dst = dk

ListsAll(supported, table) ==
    \A i \in 1..Len(table) : \E j \in 1..Len(supported) : supported[j] = table[i].kind

Registered(kind, table) == \E i \in 1..Len(table) : table[i].kind = kind

----------------------------------------------------------------------------
(* C2: for every registered kind the registry lookup                       *)
(* (ServiceRegistry.get_creator, and the lookup inside apply_ir) returns   *)
(* that kind's constructor, the one whose record carries the kind; for     *)
(* every string that is not a registered kind it fails with the            *)
(* "Unsupported kind" ValueError whose message lists all registered kinds. *)
C2_RegistryLookup ==
    /\ sr_last.op = "get_creator" =>
        IF Registered(sr_last.kind, ServiceRegistryTable)
        THEN /\ ~sr_last.raised
             /\ CreatorNamed(sr_last.creator).kind = sr_last.kind
        ELSE /\ sr_last.raised
             /\ sr_last.error.exc = "ValueError"
             /\ sr_last.error.text = "Unsupported kind"
             /\ sr_last.error.kind = sr_last.kind
             /\ ListsAll(sr_last.error.supported, ServiceRegistryTable)
    /\ \A i \in 1..Len(fb_created) :
        /\ Registered(fb_ir.nodes[fb_created[i].node].kind, FabricRegistry)
        /\ CreatorNamed(fb_created[i].creator).kind = fb_ir.nodes[fb_created[i].node].kind
    /\ fb_pc = "raised" =>
        /\ ~Registered(fb_ir.nodes[fb_ni].kind, FabricRegistry)
        /\ fb_error.exc = "ValueError"
        /\ fb_error.text = "Unsupported kind"
        /\ fb_error.kind = fb_ir.nodes[fb_ni].kind
        /\ ListsAll(fb_error.supported, FabricRegistry)

\* get_creator asked for a string that is no kind: it raised, naming eleven kinds
C2_Witness ==
    /\ sr_last.op = "get_creator"
    /\ sr_last.kind = "azure.Storage"
    /\ sr_last.raised
    /\ Len(sr_last.error.supported) = Len(ServiceRegistryTable)

----------------------------------------------------------------------------
(* C3: when apply_ir meets a node whose kind is not registered, it fails   *)
(* with the unsupported-kind error before any edge is processed and before *)
(* any later node is constructed, and the records, resources and outputs   *)
(* of the nodes before it remain declared; apply_ir never gets past such a *)
(* node.                                                                   *)
C3_UnsupportedKindAborts ==
    /\ fb_pc = "raised" =>
        /\ fb_error.text = "Unsupported kind"
        /\ fb_error.kind = fb_ir.nodes[fb_ni].kind
        /\ fb_ei = 1 /\ fb_log = <<>> /\ fb_bindings = <<>> /\ fb_exports = <<>>
        /\ Len(fb_created) = fb_ni - 1
        /\ \A i \in 1..Len(fb_created) : fb_created[i].node = i
        /\ \A i \in 1..(fb_ni - 1) :
            LET n == fb_ir.nodes[i]
                desc == CreatorNamed(RegistryGet(FabricRegistry, n.kind))
            IN  /\ n.id \in DOMAIN node_index
                /\ \A k \in 1..Len(OutputKeys(desc, n)) :
                        OutputKeys(desc, n)[k] \in DOMAIN _outputs
                /\ \A k \in 1..Len(Declared(desc, n)) :
                        \E r \in 1..Len(fb_resources) : fb_resources[r] = Declared(desc, n)[k]
    /\ fb_pc \in {"nodes", "edges", "returned"} =>
        \A i \in 1..(fb_ni - 1) : Registered(fb_ir.nodes[i].kind, FabricRegistry)

\* the second node is unregistered, the first one stays declared, an edge waits
C3_Witness ==
    /\ fb_pc = "raised"
    /\ fb_ni = 2
    /\ fb_ir.edges # <<>>
    /\ fb_ir.nodes[1].id \in DOMAIN node_index
    /\ fb_resources # <<>>

----------------------------------------------------------------------------
(* C4: for a graph with an object-storage node s, a message-queue node q   *)
(* and one edge s -> q with intent "notify", apply_ir returns, both nodes  *)
(* have their record and their output keys, exactly one event subscription *)
(* is declared, from s's account to q's queue, and no warning is logged.   *)
\* nodes i and j are the storage node s and the queue node q, and the one
\* edge is written {from: s, to: q, intent: "notify"}
StorageToQueueGraph(i, j) ==
    /\ Len(fb_ir.nodes) = 2 /\ Len(fb_ir.edges) = 1
    /\ fb_ir.nodes[i].kind = "azure.storage"
    /\ fb_ir.nodes[j].kind = "azure.servicebus"
    /\ fb_ir.nodes[i].id # fb_ir.nodes[j].id
    /\ fb_ir.edges[1] =
        [from |-> fb_ir.nodes[i].id, to |-> fb_ir.nodes[j].id, intent |-> "notify"]

C4_StorageNotifiesQueue ==
    \A i, j \in 1..Len(fb_ir.nodes) :
        (StorageToQueueGraph(i, j) /\ fb_pc # "idle") =>
            /\ fb_pc # "raised"
            /\ fb_pc = "returned" =>
                /\ fb_log = <<>>
                /\ fb_exports = <<>>
                /\ Len(fb_bindings) = 1
                /\ fb_bindings[1].scope = fb_ir.nodes[i].id
                /\ fb_bindings[1].destination = fb_ir.nodes[j].id
                /\ KindAt(fb_bindings[1].scope) = "azure.storage"
                /\ KindAt(fb_bindings[1].destination) = "azure.servicebus"
                /\ Cardinality({r \in 1..Len(fb_resources) :
                        fb_resources[r].type = "eventgrid.EventSubscription"}) = 1
                /\ \A m \in {i, j} :
                    LET n == fb_ir.nodes[m]
                        desc == CreatorNamed(RegistryGet(FabricRegistry, n.kind))
                    IN  /\ n.id \in DOMAIN node_index
                        /\ \A k \in 1..Len(OutputKeys(desc, n)) :
                                /\ OutputKeys(desc, n)[k] \in DOMAIN _outputs
                                /\ _outputs[OutputKeys(desc, n)[k]].owner = n.id

C4_Witness ==
    /\ \E i, j \in 1..Len(fb_ir.nodes) : StorageToQueueGraph(i, j)
    /\ fb_pc = "returned"
    /\ Len(fb_bindings) = 1
    /\ Cardinality(DOMAIN _outputs) = 4

----------------------------------------------------------------------------
(* C5: for every notify edge with both endpoints named for which the chain *)
(* has no branch (the pair of recorded kinds is unsupported, or an         *)
(* endpoint has no record), _connect logs one warning and adds no binding, *)
(* no export and no output; apply_ir does not raise in the edge loop and   *)
(* processes every later edge.                                             *)
\* the output keys the creators wrote for the nodes of the ir
NodeOutputKeys ==
    UNION {{OutputKeys(CreatorNamed(RegistryGet(FabricRegistry, fb_ir.nodes[i].kind)),
                       fb_ir.nodes[i])[k] :
                k \in 1..Len(CreatorNamed(RegistryGet(FabricRegistry,
                                                      fb_ir.nodes[i].kind)).attrs)} :
           i \in 1..Len(fb_ir.nodes)}

NoConnectorEdge(j) ==
    LET e == fb_ir.edges[j]
    IN  /\ Truthy(FromId(e)) /\ Truthy(ToId(e))
        /\ Intent(e) = "notify"
        /\ ~SupportedPair(KindAt(FromId(e)), KindAt(ToId(e)))

C5_NoConnectorIsSkipped ==
    /\ \A j \in 1..Len(fb_ir.edges) :
        (EdgeDone(j) /\ NoConnectorEdge(j)) =>
            /\ Cardinality(WarnsOf(j)) = 1
            /\ BindingsOf(j) = {} /\ ExportsOf(j) = {}
    /\ fb_pc = "raised" => fb_ei = 1
    /\ fb_pc = "returned" => fb_ei = Len(fb_ir.edges) + 1
    /\ fb_pc \in {"edges", "returned"} =>
        /\ fb_error = NoError
        /\ DOMAIN _outputs = NodeOutputKeys

\* a skipped first edge (an endpoint without a record) followed by an edge
\* that was still processed and wired
C5_Witness ==
    /\ fb_pc = "returned"
    /\ Len(fb_ir.edges) = 2
    /\ NoConnectorEdge(1)
    /\ KindAt(ToId(fb_ir.edges[1])) = "azure.storage"
    /\ WarnsOf(1) # {}
    /\ BindingsOf(2) # {}

----------------------------------------------------------------------------
(* C6: for every edge whose intent is not "notify", whatever the kinds of  *)
(* its endpoints, _connect logs one warning and declares no binding and no *)
(* export, and apply_ir goes on without an error.                          *)
C6_OtherIntentIsSkipped ==
    \A j \in 1..Len(fb_ir.edges) :
        (EdgeDone(j) /\ Intent(fb_ir.edges[j]) # "notify") =>
            /\ Cardinality(WarnsOf(j)) = 1
            /\ BindingsOf(j) = {} /\ ExportsOf(j) = {}
            /\ fb_error = NoError

\* a "depends" edge between a storage node and a queue node, skipped
C6_Witness ==
    /\ fb_pc = "returned"
    /\ Len(fb_ir.edges) >= 1
    /\ Intent(fb_ir.edges[1]) = "depends"
    /\ Truthy(FromId(fb_ir.edges[1]))
    /\ KindAt(FromId(fb_ir.edges[1])) = "azure.storage"
    /\ KindAt(ToId(fb_ir.edges[1])) = "azure.servicebus"
    /\ WarnsOf(1) # {}

----------------------------------------------------------------------------
(* validator.py: PayloadValidator.validate                                 *)

\* {x} inside an f-string
Str(x) == IF x = None THEN <<"N","o","n","e">> ELSE x

\* {n} inside an f-string, n a length
RECURSIVE NatStr(_)
NatStr(n) == IF n < 10 THEN <<Digits[n + 1]>>
             ELSE NatStr(n \div 10) \o <<Digits[(n % 10) + 1]>>

COMMON_STORAGE_NAMES ==
    <<<<"t","e","s","t">>,
      <<"s","t","o","r","a","g","e">>,
      <<"m","y","s","t","o","r","a","g","e">>,
      <<"t","e","s","t","s","t","o","r","a","g","e">>,
      <<"s","t","o","r">>,
      <<"d","a","t","a">>,
      <<"f","i","l","e","s">>,
      <<"b","l","o","b">>,
      <<"c","o","n","t","a","i","n","e","r">>,
      <<"b","a","c","k","u","p">>,
      <<"a","r","c","h","i","v","e">>>>

ShortStorageName == 8
MaxStorageName == 24
MinStorageName == 3
MinKeyVaultName == 3
MaxKeyVaultName == 24
MaxFunctionAppName == 60

SetOf(seq) == {seq[i] : i \in 1..Len(seq)}

\* '$' of re.match also matches before one trailing newline
BeforeNewline(s) ==
    IF s # <<>> /\ s[Len(s)] = "\n" THEN SubSeq(s, 1, Len(s) - 1) ELSE s

\* re.match(r'^[a-z0-9]+$', s)
StorageNameRule(s) ==
    LET b == BeforeNewline(s)
    IN  /\ Len(b) >= 1
        /\ \A i \in 1..Len(b) : b[i] \in AsciiLower \cup AsciiDigit

\* re.match(r'^[a-zA-Z0-9-]{3,24}$', s)
KeyVaultNameRule(s) ==
    LET b == BeforeNewline(s)
    IN  /\ Len(b) >= MinKeyVaultName
        /\ Len(b) <= MaxKeyVaultName
        /\ \A i \in 1..Len(b) : b[i] \in SafeChars

\* one entry of errors, warnings or suggestions: the fixed text of the
\* f-string and the values formatted into it, in order
Msg(text, args) == [text |-> text, args |-> args]

\* None.lower()
AttributeError ==
    [exc |-> "AttributeError", text |-> "'NoneType' object has no attribute 'lower'",
     kind |-> "", supported |-> <<>>]

\* ', '.join(items) with an item that is None
TypeError ==
    [exc |-> "TypeError", text |-> "sequence item: expected str instance, NoneType found",
     kind |-> "", supported |-> <<>>]

\* errors = [], warnings = [], suggestions = [], nothing raised
Start == [errors |-> <<>>, warnings |-> <<>>, suggestions |-> <<>>, error |-> NoError]

Err(acc, m) == [acc EXCEPT !.errors = Append(@, m)]
Warn(acc, m) == [acc EXCEPT !.warnings = Append(@, m)]
Suggest(acc, m) == [acc EXCEPT !.suggestions = Append(@, m)]
Raise(acc, e) == [acc EXCEPT !.error = e]

JoinRaises(items) == \E i \in 1..Len(items) : items[i] = None

\* ', '.join(items)
RECURSIVE Join(_)
Join(items) ==
    IF items = <<>> THEN <<>>
    ELSE IF Len(items) = 1 THEN items[1]
    ELSE items[1] \o <<",", " ">> \o Join(Tail(items))

\* the branch kind == "azure.storage"
CheckStorage(acc, node, node_id, name, project, env) ==
    LET storage_name == PyOr(Get(Get(node, "props", EmptyDict), "accountName", None), name)
    IN  IF storage_name = None THEN Raise(acc, AttributeError)
        ELSE
        LET storage_name_lower == Lower(storage_name)
            who == <<storage_name, Str(node_id)>>
            a1 == IF Len(storage_name_lower) < ShortStorageName
                  THEN Suggest(Warn(acc, Msg("Storage account is very short", who)),
                               Msg("Try", <<storage_name \o project \o env>>))
                  ELSE acc
            a2 == IF storage_name_lower \in SetOf(COMMON_STORAGE_NAMES)
                  THEN Suggest(Warn(a1, Msg("Storage account uses a very common name", who)),
                               Msg("Use a more unique name",
                                   <<storage_name \o project \o env \o <<"2","0","2","5">> >>))
                  ELSE a1
            a3 == IF ~StorageNameRule(storage_name_lower)
                  THEN Err(a2, Msg("Storage account contains invalid characters", who))
                  ELSE a2
            a4 == IF Len(storage_name_lower) > MaxStorageName
                  THEN Err(a3, Msg("Storage account is too long",
                                   who \o <<NatStr(Len(storage_name_lower))>>))
                  ELSE a3
        IN  IF Len(storage_name_lower) < MinStorageName
            THEN Err(a4, Msg("Storage account is too short",
                             who \o <<NatStr(Len(storage_name_lower))>>))
            ELSE a4

\* the branch kind == "azure.containerapp"
CheckContainerApp(acc, node_id, location) ==
    Suggest(Warn(acc, Msg("Container App requires a Container App Environment",
                          <<Str(node_id), location>>)),
            Msg("Option 1: Remove Container App from payload if limit reached",
                <<location>>))

\* the branch kind == "azure.keyvault"
CheckKeyVault(acc, node_id, name) ==
    IF name = None THEN Raise(acc, AttributeError)
    ELSE IF ~KeyVaultNameRule(Lower(name))
    THEN Err(acc, Msg("Key Vault has invalid characters", <<name, Str(node_id)>>))
    ELSE acc

\* the branch kind == "azure.functionapp"
CheckFunctionApp(acc, node_id, name) ==
    IF name = None THEN Raise(acc, AttributeError)
    ELSE IF Len(Lower(name)) > MaxFunctionAppName
    THEN Warn(acc, Msg("Function App name is very long", <<name, Str(node_id)>>))
    ELSE acc

\* node.get("kind") of a node without kind
NoKind == "None"

\* the body of the loop over nodes
ValidateNode(acc, node, location, project, env) ==
    LET kind == Get(node, "kind", NoKind)
        node_id == Get(node, "id", None)
        name == PyOr(Get(node, "name", None), node_id)
    IN  IF kind = "azure.storage" THEN CheckStorage(acc, node, node_id, name, project, env)
        ELSE IF kind = "azure.containerapp" THEN CheckContainerApp(acc, node_id, location)
        ELSE IF kind = "azure.keyvault" THEN CheckKeyVault(acc, node_id, name)
        ELSE IF kind = "azure.functionapp" THEN CheckFunctionApp(acc, node_id, name)
        ELSE acc

\* for node in nodes: an exception leaves the loop and the function
RECURSIVE ValidateNodes(_, _, _, _, _)
ValidateNodes(acc, nodes, location, project, env) ==
    IF nodes = <<>> \/ acc.error # NoError THEN acc
    ELSE ValidateNodes(ValidateNode(acc, Head(nodes), location, project, env),
                       Tail(nodes), location, project, env)

\* node_ids = [n.get("id") for n in nodes]
NodeIds(nodes) ==
    IF nodes = <<>> THEN <<>> ELSE [i \in 1..Len(nodes) |-> Get(nodes[i], "id", None)]

\* node_ids.count(nid)
Count(seq, x) == Cardinality({i \in 1..Len(seq) : seq[i] = x})

\* duplicates = [nid for nid in node_ids if node_ids.count(nid) > 1]
Duplicates(node_ids) ==
    LET More(x) == Count(node_ids, x) > 1 IN SelectSeq(node_ids, More)

\* the orders in which iterating the set S can yield its elements
Orderings(S) == {s \in SeqsOfLen(S, Cardinality(S)) : SetOf(s) = S}

\* the check for duplicate node ids; order is the iteration of set(duplicates)
CheckDuplicates(acc, node_ids, order) ==
    IF acc.error # NoError \/ Duplicates(node_ids) = <<>> THEN acc
    ELSE IF JoinRaises(order) THEN Raise(acc, TypeError)
    ELSE Err(acc, Msg("Duplicate node IDs found", <<Join(order)>>))

\* one endpoint of an edge against node_id_set
CheckEndpoint(acc, id, node_ids, text) ==
    IF acc.error # NoError THEN acc
    ELSE IF Truthy(id) /\ id \notin SetOf(node_ids)
    THEN IF JoinRaises(node_ids) THEN Raise(acc, TypeError)
         ELSE Err(acc, Msg(text, <<id, Join(node_ids)>>))
    ELSE acc

\* the body of the loop over edges
CheckEdge(acc, edge, node_ids) ==
    LET from_id == PyOr(Get(edge, "from", None), Get(edge, "from_", None))
        to_id == Get(edge, "to", None)
    IN  CheckEndpoint(CheckEndpoint(acc, from_id, node_ids,
                                    "Edge references unknown source node"),
                      to_id, node_ids, "Edge references unknown destination node")

RECURSIVE CheckEdges(_, _, _)
CheckEdges(acc, edges, node_ids) ==
    IF edges = <<>> \/ acc.error # NoError THEN acc
    ELSE CheckEdges(CheckEdge(acc, Head(edges), node_ids), Tail(edges), node_ids)

DefaultRegion == <<"w","e","s","t","e","u","r","o","p","e">>

blocked_regions == <<<<"w","e","s","t","e","u","r","o","p","e">>>>

\* location = ir.get("location") or ir.get("region") or "westeurope"
Location(ir) ==
    PyOr(PyOr(Get(ir, "location", None), Get(ir, "region", None)), DefaultRegion)

\* the region policy check
CheckRegion(acc, location) ==
    IF acc.error # NoError THEN acc
    ELSE IF Lower(location) \in SetOf(blocked_regions)
    THEN Warn(acc, Msg("Region may be blocked by your Azure subscription policy",
                       <<location>>))
    ELSE acc

\* a report whose valid also asks for no warnings
Report_CountsWarnings(acc) ==
    [valid |-> Len(acc.errors) = 0 /\ Len(acc.warnings) = 0, errors |-> acc.errors,
     warnings |-> acc.warnings, suggestions |-> acc.suggestions]

\* the returned dict
Report(acc) ==
    [valid |-> Len(acc.errors) = 0, errors |-> acc.errors,
     warnings |-> acc.warnings, suggestions |-> acc.suggestions]

\* the lists validate has built when it reaches its return statement, or the
\* exception that ended it; order is the iteration order of set(duplicates)
ValidateBody(ir, order) ==
    LET nodes == Get(ir, "nodes", <<>>)
        location == Location(ir)
        node_ids == NodeIds(nodes)
        a1 == ValidateNodes(Start, nodes, location,
                            Get(ir, "project", <<>>), Get(ir, "env", <<>>))
        a2 == CheckDuplicates(a1, node_ids, order)
        a3 == CheckEdges(a2, Get(ir, "edges", <<>>), node_ids)
    IN  CheckRegion(a3, location)

\* PayloadValidator.validate(ir)
validate(ir, order) ==
    LET acc == ValidateBody(ir, order)
    IN  IF acc.error # NoError
        THEN [raised |-> TRUE, report |-> NoReport, error |-> acc.error]
        ELSE [raised |-> FALSE, report |-> Report(acc), error |-> NoError]

\* the iteration orders of set(duplicates) for the nodes of ir
DuplicateOrders(ir) == Orderings(SetOf(Duplicates(NodeIds(Get(ir, "nodes", <<>>)))))

----------------------------------------------------------------------------
(* Inputs of validate                                                      *)

LongFunctionName == [i \in 1..(MaxFunctionAppName + 1) |-> "f"]

\* nodes as dicts, with and without id, with and without name: a storage
\* account with a common name, one with neither id nor name, one with a short
\* accountName, a key vault with an underscore and no id, a container app and
\* a function app with a long name
ValidateNodeInputs ==
    { [id |-> <<"a">>, kind |-> "azure.storage", name |-> <<"m","y","s","t","o","r","a","g","e">>],
      [kind |-> "azure.storage"],
      [id |-> <<"b">>, kind |-> "azure.storage",
       props |-> [accountName |-> <<"A","b">>]],
      [kind |-> "azure.keyvault", name |-> <<"k","v","_","1">>],
      [id |-> <<"b">>, kind |-> "azure.containerapp"],
      [id |-> <<"a">>, kind |-> "azure.functionapp", name |-> LongFunctionName] }

\* edges as dicts: between known ids, from an unknown id (as model_dump()
\* writes it), to an empty id, and with a destination only
ValidateEdgeInputs ==
    { [from |-> <<"a">>, to |-> <<"b">>],
      [from_ |-> <<"x">>, to |-> <<"a">>, intent |-> "notify"],
      [from |-> <<"a">>, to |-> <<>>],
      [to |-> <<"y">>] }

MaxValidateNodes == 3
MaxValidateEdges == 1

ValidateInputs ==
    LET graphs == {[nodes |-> ns, edges |-> es] :
                      ns \in SeqsUpTo(ValidateNodeInputs, MaxValidateNodes),
                      es \in SeqsUpTo(ValidateEdgeInputs, MaxValidateEdges)}
    IN  graphs \cup
        {[nodes |-> g.nodes, edges |-> g.edges, location |-> <<"E","a","s","t","U","S">>] : g \in graphs}

----------------------------------------------------------------------------
(* Specification of the payload validator                                  *)

ValidateInit ==
    /\ FabricIdle
    /\ NamingIdle
    /\ EngineIdle
    /\ UnwrapIdle
    /\ vl_pc = "called"
    /\ vl_ir \in ValidateInputs
    /\ vl_report = NoReport
    /\ vl_error = NoError

\* validate runs to its return statement
ValidateReturn ==
    /\ vl_pc = "called"
    /\ \E order \in DuplicateOrders(vl_ir) :
        LET r == validate(vl_ir, order)
        IN  /\ ~r.raised
            /\ vl_report' = r.report
    /\ vl_pc' = "returned"
    /\ UNCHANGED <<vl_ir, vl_error, nm_vars, fb_vars, en_vars, uw_vars>>

\* validate is left by an exception
ValidateRaise ==
    /\ vl_pc = "called"
    /\ \E order \in DuplicateOrders(vl_ir) :
        LET r == validate(vl_ir, order)
        IN  /\ r.raised
            /\ vl_error' = r.error
    /\ vl_pc' = "raised"
    /\ UNCHANGED <<vl_ir, vl_report, nm_vars, fb_vars, en_vars, uw_vars>>

ValidateNext == ValidateReturn \/ ValidateRaise

SpecValidate == ValidateInit /\ [][ValidateNext]_vars

----------------------------------------------------------------------------
(* Vocabulary of the claims about validate                                 *)

\* needle occurs in hay
Contains(hay, needle) ==
    \E i \in 0..(Len(hay) - Len(needle)) :
        \A k \in 1..Len(needle) : hay[i + k] = needle[k]

\* the ids that more than one node of the graph carries
DuplicatedIds ==
    LET ids == NodeIds(vl_ir.nodes)
    IN  {d \in SetOf(ids) \ {None} : Count(ids, d) > 1}

\* the from and to values the edge carries
EndpointValues(edge) == {edge[k] : k \in {"from", "from_", "to"} \cap DOMAIN edge}

\* the endpoint values of the edges that no node carries as its id
DanglingEndpoints ==
    UNION {EndpointValues(vl_ir.edges[j]) : j \in 1..Len(vl_ir.edges)}
        \ SetOf(NodeIds(vl_ir.nodes))

ValidateDone == vl_pc \in {"returned", "raised"}

----------------------------------------------------------------------------
(* C7: for every IR graph in which some node id occurs more than once,     *)
(* validate returns valid=false and its errors name every duplicated id.   *)
C7_DuplicateIdsRejected ==
    (ValidateDone /\ DuplicatedIds # {}) =>
        /\ vl_pc = "returned"
        /\ ~vl_report.valid
        /\ \A d \in DuplicatedIds :
            \E k \in 1..Len(vl_report.errors) :
                /\ vl_report.errors[k].text = "Duplicate node IDs found"
                /\ Contains(vl_report.errors[k].args[1], d)

----------------------------------------------------------------------------
(* C8: for every edge whose from or to value is not in the set of node ids *)
(* of the graph, validate returns an error that names the missing id and   *)
(* enumerates the valid node ids, so valid=false.                          *)
C8_DanglingEndpointRejected ==
    ValidateDone =>
        \A v \in DanglingEndpoints :
            /\ vl_pc = "returned"
            /\ ~vl_report.valid
            /\ \E k \in 1..Len(vl_report.errors) :
                /\ vl_report.errors[k].text \in
                        {"Edge references unknown source node",
                         "Edge references unknown destination node"}
                /\ vl_report.errors[k].args[1] = v
                /\ \A id \in SetOf(NodeIds(vl_ir.nodes)) :
                        Contains(vl_report.errors[k].args[2], Str(id))

----------------------------------------------------------------------------
(* C9: in every report validate returns, valid is true if and only if the  *)
(* errors list is empty; the warnings and suggestions of the report (short *)
(* or common storage name, container app quota, blocked region, long       *)
(* function app name) do not enter valid.                                  *)
C9_ValidIffNoErrors ==
    vl_pc = "returned" =>
        /\ vl_report.valid \in BOOLEAN
        /\ vl_report.valid <=> (vl_report.errors = <<>>)

\* a report with warnings and suggestions, no error, and valid true
C9_Witness ==
    /\ vl_pc = "returned"
    /\ vl_report.warnings # <<>>
    /\ vl_report.suggestions # <<>>
    /\ vl_report.errors = <<>>
    /\ vl_report.valid

----------------------------------------------------------------------------
(* C10: validate never raises: for every IR graph, including nodes without *)
(* a name, nodes without an id and edges without endpoints, it returns a   *)
(* report with the fields valid, errors, warnings and suggestions.         *)
C10_ValidateNeverRaises ==
    /\ vl_pc # "raised"
    /\ vl_pc = "returned" =>
            DOMAIN vl_report = {"valid", "errors", "warnings", "suggestions"}

----------------------------------------------------------------------------
(* pulumi_engine.py: names, failure classification, output unwrapping and  *)
(* the direct deletion of a resource group                                 *)

\* f"{project}-{env_name}"
StackName(project, env_name) == Cat(<<project, <<"-">>, env_name>>)

\* f"rg-{project}-{env_name}"
ResourceGroupName(project, env_name) == Cat(<<<<"r","g","-">>, project, <<"-">>, env_name>>)

\* {**a, **b}
Merge(a, b) == [k \in DOMAIN a \cup DOMAIN b |-> IF k \in DOMAIN b THEN b[k] ELSE a[k]]

\* "if creds": a creds dict or model with its fields
HasCreds(creds) == DOMAIN creds # {}

\* one call that leaves the core: its name and what it is aimed at
Call(name, target) == [call |-> name, target |-> target, raised |-> FALSE, status |-> 0]

\* the same call, raising
Raised(name, target) == [call |-> name, target |-> target, raised |-> TRUE, status |-> 0]

\* an HTTP request answered with a status code
Answered(name, target, status) ==
    [call |-> name, target |-> target, raised |-> FALSE, status |-> status]

\* needle in hay
In(needle, hay) ==
    \E i \in 0..(Len(hay) - Len(needle)) :
        \A k \in 1..Len(needle) : hay[i + k] = needle[k]

CapacitySignature == <<"M","a","x","N","u","m","b","e","r","O","f","R","e","g","i","o","n","a","l","E","n","v","i","r","o","n","m","e","n","t","s","I","n","S","u","b","E","x","c","e","e","d","e","d">>
NameTakenSignature == <<"S","t","o","r","a","g","e","A","c","c","o","u","n","t","A","l","r","e","a","d","y","T","a","k","e","n">>
NameTakenPhrase == <<"a","l","r","e","a","d","y"," ","t","a","k","e","n">>
PolicySignature == <<"R","e","q","u","e","s","t","D","i","s","a","l","l","o","w","e","d","B","y","A","z","u","r","e">>

\* error_msg: str(e.args[0]) when e has args, else str(e)
ErrorMsg(e) == IF e.args # <<>> THEN Str(e.args[1]) ELSE e.str

\* a classification that tests the policy signature first
ClassifyUpFailure_PolicyFirst(e) ==
    LET error_msg == ErrorMsg(e)
    IN  IF In(PolicySignature, error_msg)
        THEN Msg("Azure subscription policy blocked this region", <<>>)
        ELSE IF In(CapacitySignature, error_msg)
        THEN Msg("Container App Environment limit reached", <<>>)
        ELSE IF In(NameTakenSignature, error_msg) \/ In(NameTakenPhrase, Lower(error_msg))
        THEN Msg("Storage account name is already taken", <<>>)
        ELSE Msg("Deployment failed", <<error_msg>>)

\* the message of the ValueError that up raises for the exception e of stack.up
ClassifyUpFailure(e) ==
    LET error_msg == ErrorMsg(e)
    IN  IF In(CapacitySignature, error_msg)
        THEN Msg("Container App Environment limit reached", <<>>)
        ELSE IF In(NameTakenSignature, error_msg) \/ In(NameTakenPhrase, Lower(error_msg))
        THEN Msg("Storage account name is already taken", <<>>)
        ELSE IF In(PolicySignature, error_msg)
        THEN Msg("Azure subscription policy blocked this region", <<>>)
        ELSE Msg("Deployment failed", <<error_msg>>)

\* Output values: a scalar, a value wrapped in an object with .value (deferred
\* or secret), a dict as its items in order, a list and a tuple.
Scalar(v) == [t |-> "scalar", v |-> v]
Wrapped(secret, x) == [t |-> "wrapped", secret |-> secret, value |-> x]
Dict(items) == [t |-> "dict", items |-> items]
List(items) == [t |-> "list", items |-> items]
Tuple(items) == [t |-> "tuple", items |-> items]
Item(k, v) == [k |-> k, v |-> v]

\* an unwrap that takes off one wrapper and does not descend
_unwrap_Shallow(x) == IF x.t = "wrapped" THEN x.value ELSE x

\* up._unwrap
RECURSIVE _unwrap(_)
_unwrap(x) ==
    IF x.t = "wrapped" THEN _unwrap(x.value)
    ELSE IF x.t = "dict"
    THEN IF x.items = <<>> THEN x
         ELSE Dict([i \in 1..Len(x.items) |-> Item(x.items[i].k, _unwrap(x.items[i].v))])
    ELSE IF x.t \in {"list", "tuple"}
    THEN IF x.items = <<>> THEN x
         ELSE [t |-> x.t, items |-> [i \in 1..Len(x.items) |-> _unwrap(x.items[i])]]
    ELSE x

\* outputs = {k: _unwrap(v) for k, v in (up_res.outputs or {}).items()}
UnwrapOutputs(outputs) ==
    IF outputs = <<>> THEN <<>>
    ELSE [i \in 1..Len(outputs) |-> Item(outputs[i].k, _unwrap(outputs[i].v))]

\* What the network answers to one direct deletion: the token request and
\* the DELETE request each succeed or raise, the DELETE answers with a status.
NetOutcomes ==
    {[raised |-> "none", status |-> s] : s \in {200, 202, 404, 500}}
        \cup {[raised |-> "token", status |-> 0], [raised |-> "delete", status |-> 0]}

\* the direct deletion with a DELETE that is sent again when it is not accepted
_delete_resource_group_direct_Retry(subscription_id, resource_group, creds, net) ==
    IF ~HasCreds(creds)
    THEN [result |-> [deleted |-> FALSE,
                      message |-> Msg("Azure credentials required for direct deletion", <<>>)],
          calls |-> <<>>]
    ELSE IF net.raised # "none"
    THEN [result |-> [deleted |-> FALSE,
                      message |-> Msg("Error deleting resource group", <<>>)],
          calls |-> <<Raised("requests.post token", <<>>)>>]
    ELSE IF net.status \in {200, 202}
    THEN [result |-> [deleted |-> TRUE,
                      message |-> Msg("Resource group deletion initiated",
                                      <<resource_group>>)],
          calls |-> <<Call("requests.post token", <<>>),
                      Answered("requests.delete", resource_group, net.status)>>]
    ELSE [result |-> [deleted |-> FALSE,
                      message |-> Msg("Failed to delete resource group", <<>>)],
          calls |-> <<Call("requests.post token", <<>>),
                      Answered("requests.delete", resource_group, net.status),
                      Answered("requests.delete", resource_group, net.status)>>]

\* PulumiEngine._delete_resource_group_direct: the dict it returns and the
\* requests it has sent
_delete_resource_group_direct(subscription_id, resource_group, creds, net) ==
    IF ~HasCreds(creds)
    THEN [result |-> [deleted |-> FALSE,
                      message |-> Msg("Azure credentials required for direct deletion", <<>>)],
          calls |-> <<>>]
    ELSE
    LET token == Call("requests.post token", <<>>)
        delete == Answered("requests.delete", resource_group, net.status)
    IN  IF net.raised = "token"
        THEN [result |-> [deleted |-> FALSE,
                          message |-> Msg("Error deleting resource group", <<>>)],
              calls |-> <<Raised("requests.post token", <<>>)>>]
        ELSE IF net.raised = "delete"
        THEN [result |-> [deleted |-> FALSE,
                          message |-> Msg("Error deleting resource group", <<>>)],
              calls |-> <<token, Raised("requests.delete", resource_group)>>]
        ELSE IF net.status = 202
        THEN [result |-> [deleted |-> TRUE,
                          message |-> Msg("Resource group deletion initiated",
                                          <<resource_group>>)],
              calls |-> <<token, delete>>]
        ELSE IF net.status = 200
        THEN [result |-> [deleted |-> TRUE,
                          message |-> Msg("Resource group deleted successfully",
                                          <<resource_group>>)],
              calls |-> <<token, delete>>]
        ELSE IF net.status = 404
        THEN [result |-> [deleted |-> FALSE,
                          message |-> Msg("Resource group not found (may already be deleted)",
                                          <<resource_group>>)],
              calls |-> <<token, delete>>]
        ELSE [result |-> [deleted |-> FALSE,
                          message |-> Msg("Failed to delete resource group",
                                          <<NatStr(net.status)>>),
                          error |-> "response.text"],
              calls |-> <<token, delete>>]

----------------------------------------------------------------------------
(* Inputs of the deployment engine                                         *)

ProjectInputs == {<<"p">>}
EnvInputs == {<<"d">>, <<"e">>}

\* AzureCreds of a request, or none
CredsInputs ==
    {NoCreds,
     [clientId |-> "client-1", clientSecret |-> "secret-1",
      subscriptionId |-> "sub-1", tenantId |-> "tenant-1"]}

\* graphs as the client sends them: a valid one, one with a duplicated id,
\* one with an edge to an unknown id, one with an illegal key vault name,
\* one with an unregistered kind, and three empty ones that name a location,
\* a region, or both
GraphInputs ==
    { [nodes |-> <<[id |-> <<"a">>, kind |-> "azure.storage", name |-> <<"m","y","s","t","o","r","a","g","e">>]>>,
       edges |-> <<>>],
      [nodes |-> <<[id |-> <<"a">>, kind |-> "azure.storage", name |-> <<"m","y","s","t","o","r","a","g","e">>],
                   [id |-> <<"a">>, kind |-> "azure.containerapp"]>>,
       edges |-> <<>>],
      [nodes |-> <<[id |-> <<"a">>, kind |-> "azure.storage", name |-> <<"m","y","s","t","o","r","a","g","e">>]>>,
       edges |-> <<[from |-> <<"a">>, to |-> <<"x">>]>>],
      [nodes |-> <<[id |-> <<"b">>, kind |-> "azure.keyvault", name |-> <<"k","v","_","1">>]>>,
       edges |-> <<>>],
      [nodes |-> <<[id |-> <<"a">>, kind |-> "not-a-real-kind"]>>,
       edges |-> <<>>],
      [nodes |-> <<>>, edges |-> <<>>, location |-> <<"e","a","s","t","u","s">>],
      [nodes |-> <<>>, edges |-> <<>>, region |-> <<"e","a","s","t","u","s">>],
      [nodes |-> <<>>, edges |-> <<>>, location |-> <<"w","e","s","t","e","u","r","o","p","e">>,
       region |-> <<"e","a","s","t","u","s">>] }

\* the requests: POST /preview, POST /up, POST /destroy (whose body may carry
\* creds as well) and PulumiEngine.destroy called with a creds argument
RequestInputs ==
    {[op |-> op, via |-> "http", creds |-> c,
      ir |-> Merge([project |-> p, env |-> e], g)] :
        op \in {"preview", "up"}, c \in CredsInputs, p \in ProjectInputs,
        e \in EnvInputs, g \in GraphInputs}
    \cup
    {[op |-> "destroy", via |-> v, creds |-> c, project |-> p, env |-> e] :
        v \in {"http", "call"}, c \in CredsInputs, p \in ProjectInputs, e \in EnvInputs}

\* an exception made with one message
Exception(msg) == [args |-> <<msg>>, str |-> msg]

\* what create_or_select_stack, stack.preview and stack.destroy raise
CommandError == Exception(<<"c","o","m","m","a","n","d"," ","f","a","i","l","e","d">>)

\* the exceptions stack.up can raise
ConvergeFailures ==
    LET Of(msg) == Exception(msg)
    IN  { Of(<<"e","r","r",":"," ">> \o CapacitySignature),
          Of(NameTakenSignature),
          Of(<<"n","a","m","e"," ","i","s"," ","A","l","r","e","a","d","y"," ","T","a","k","e","n">>),
          Of(PolicySignature \o <<"!">>),
          Of(<<"b","o","o","m">>),
          Of(CapacitySignature \o <<" ">> \o PolicySignature),
          Of(PolicySignature \o <<" ">> \o NameTakenSignature),
          [args |-> <<>>, str |-> PolicySignature] }

\* the exception of stack.up when the program itself raised
ProgramError == [args |-> <<<<"U","n","s","u","p","p","o","r","t","e","d"," ","k","i","n","d">>>>, str |-> <<"U","n","s","u","p","p","o","r","t","e","d"," ","k","i","n","d">>]

\* up_res.outputs of a successful stack.up
ConvergeOutputs ==
    { <<>>,
      <<Item("resourceGroupName", Wrapped(FALSE, Scalar("rg"))),
        Item("fabricOutputs",
             Wrapped(FALSE, Dict(<<Item("storage-a-conn", Wrapped(TRUE, Scalar("conn"))),
                                   Item("storage-a-accountName", Scalar("name"))>>)))>> }

----------------------------------------------------------------------------
(* models.py, main.py, pulumi_engine.py: the three operations              *)

\* IR(...).model_dump(): every field under its field name, defaults filled in
model_dump(ir) ==
    [project |-> ir.project, env |-> ir.env,
     location |-> Get(ir, "location", None), region |-> Get(ir, "region", None),
     nodes |-> IF ir.nodes = <<>> THEN <<>>
               ELSE [i \in 1..Len(ir.nodes) |->
                        [id |-> ir.nodes[i].id, kind |-> ir.nodes[i].kind,
                         name |-> Get(ir.nodes[i], "name", None),
                         props |-> Get(ir.nodes[i], "props", EmptyDict)]],
     edges |-> IF ir.edges = <<>> THEN <<>>
               ELSE [i \in 1..Len(ir.edges) |->
                        [from_ |-> ir.edges[i].from, to |-> ir.edges[i].to,
                         intent |-> Get(ir.edges[i], "intent", "notify")]]]

\* the ir the engine method of the request works on
RequestIR == model_dump(en_req.ir)

\* the (project, env) of the request
RequestProject == IF en_req.op = "destroy" THEN en_req.project ELSE en_req.ir.project
RequestEnv == IF en_req.op = "destroy" THEN en_req.env ELSE en_req.ir.env
RequestStack == StackName(RequestProject, RequestEnv)

\* AZURE_LOCATION is not set in the environment of the process
DEFAULT_LOCATION == <<"s","o","u","t","h","e","a","s","t","a","s","i","a">>

\* build_pulumi_program: location = ir.get("location") or ir.get("region") or "westeurope"
BuilderLocation(ir) ==
    PyOr(PyOr(Get(ir, "location", None), Get(ir, "region", None)),
         <<"w","e","s","t","e","u","r","o","p","e">>)

\* _set_config: location = ir.get("location") or ir.get("region") or DEFAULT_LOCATION
ConfigLocation(ir) ==
    PyOr(PyOr(Get(ir, "location", None), Get(ir, "region", None)), DEFAULT_LOCATION)

\* program = build_pulumi_program(ir), which preview and up call before _stack
BuildProgram ==
    IF en_req.op = "destroy" THEN <<>>
    ELSE <<Call("build_pulumi_program", BuilderLocation(RequestIR))>>

\* the program raises when the engine runs it: apply_ir meets an unregistered kind
ProgramRaises(ir) ==
    \E i \in 1..Len(ir.nodes) : RegistryGet(FabricRegistry, ir.nodes[i].kind) = NoCreator

\* del d[k]
Remove(d, k) == [x \in (DOMAIN d) \ {k} |-> d[x]]

\* a returned value, and an exception turned into HTTPException(400, str(e))
Ok(body) == [status |-> 200, body |-> body]
BadRequest(detail) == [status |-> 400, detail |-> detail]

\* a request arrives
Receive ==
    /\ en_pc \in {"idle", "done"}
    /\ \E req \in RequestInputs :
        /\ en_req' = req
        /\ en_known' = ((IF req.op = "destroy" THEN StackName(req.project, req.env)
                         ELSE StackName(req.ir.project, req.ir.env)) \in DOMAIN stacks)
    /\ en_exc' = NoException
    /\ en_pc' = "received"
    /\ en_creds' = NoCreds
    /\ en_validation' = NoReport
    /\ en_calls' = <<>>
    /\ en_result' = NoResult
    /\ UNCHANGED <<environ, stacks, th, nm_vars, fb_vars, vl_vars, uw_vars>>

\* main.preview, main.up: _export_azure_creds(req.creds)
ExportAzureCreds ==
    /\ en_pc = "received"
    /\ en_req.op \in {"preview", "up"}
    /\ IF HasCreds(en_req.creds)
       THEN /\ environ' = Merge(environ,
                    [ARM_CLIENT_ID |-> en_req.creds.clientId,
                     ARM_CLIENT_SECRET |-> en_req.creds.clientSecret,
                     ARM_TENANT_ID |-> en_req.creds.tenantId,
                     ARM_SUBSCRIPTION_ID |-> en_req.creds.subscriptionId])
            /\ en_calls' = Append(en_calls, Call("_export_azure_creds", <<>>))
       ELSE UNCHANGED <<environ, en_calls>>
    /\ en_pc' = IF en_req.op = "preview" THEN "validate" ELSE "stack"
    /\ UNCHANGED <<en_req, en_known, en_exc, en_creds, en_validation, en_result, stacks,
                   th, nm_vars, fb_vars, vl_vars, uw_vars>>

\* main.destroy: PulumiEngine.destroy(req.project, req.env), DestroyRequest
\* having no creds field; or PulumiEngine.destroy(project, env, creds) itself
DestroyEntry ==
    /\ en_pc = "received"
    /\ en_req.op = "destroy"
    /\ en_creds' = IF en_req.via = "call" THEN en_req.creds ELSE NoCreds
    /\ en_pc' = "stack"
    /\ UNCHANGED <<en_req, en_known, en_exc, en_validation, en_calls, en_result, environ, stacks,
                   th, nm_vars, fb_vars, vl_vars, uw_vars>>

\* PulumiEngine.preview: validation = PayloadValidator.validate(ir)
PreviewValidate ==
    /\ en_pc = "validate"
    /\ \E order \in DuplicateOrders(RequestIR) :
        LET r == validate(RequestIR, order)
        IN  IF r.raised
            THEN /\ en_result' = BadRequest(Msg("str(e)", <<r.error.text>>))
                 /\ en_pc' = "done"
                 /\ UNCHANGED en_validation
            ELSE /\ en_validation' = r.report
                 /\ en_pc' = "stack"
                 /\ UNCHANGED en_result
    /\ UNCHANGED <<en_req, en_known, en_exc, en_creds, en_calls, environ, stacks,
                   th, nm_vars, fb_vars, vl_vars, uw_vars>>

\* _stack: auto.create_or_select_stack creates the stack or selects it;
\* preview and up then set the location on it
SelectStack ==
    /\ en_pc = "stack"
    /\ stacks' = IF RequestStack \in DOMAIN stacks THEN stacks
                 ELSE Put(stacks, RequestStack,
                          [project |-> RequestProject, applied |-> FALSE])
    /\ en_calls' = en_calls \o BuildProgram \o
                   <<Call("create_or_select_stack", RequestStack)>> \o
                   (IF en_req.op = "destroy" THEN <<>>
                    ELSE <<Call("stack.set_config", ConfigLocation(RequestIR))>>)
    /\ en_pc' = IF en_req.op = "preview" THEN "dryrun"
                ELSE IF en_req.op = "up" THEN "converge" ELSE "destroy"
    /\ UNCHANGED <<en_req, en_known, en_exc, en_creds, en_validation, en_result, environ,
                   th, nm_vars, fb_vars, vl_vars, uw_vars>>

\* _stack raises: preview and up let the exception through, destroy takes it
\* for a missing stack
SelectStackFails ==
    /\ en_pc = "stack"
    /\ en_calls' = en_calls \o BuildProgram \o
                   <<Raised("create_or_select_stack", RequestStack)>>
    /\ en_exc' = CommandError
    /\ IF en_req.op # "destroy"
       THEN /\ en_result' = BadRequest(Msg("str(e)", <<CommandError.str>>))
            /\ en_pc' = "done"
       ELSE IF HasCreds(en_creds)
       THEN /\ en_pc' = "direct"
            /\ UNCHANGED en_result
       ELSE /\ en_result' = Ok(
                    [destroyed |-> FALSE,
                     message |-> Msg("Stack not found and no credentials provided for direct deletion",
                                     <<RequestStack>>),
                     error |-> CommandError.str])
            /\ en_pc' = "done"
    /\ UNCHANGED <<en_req, en_known, en_creds, en_validation, environ, stacks,
                   th, nm_vars, fb_vars, vl_vars, uw_vars>>

\* destroy, no stack: the direct deletion of the resource group
DirectDelete ==
    /\ en_pc = "direct"
    /\ \E net \in NetOutcomes :
        LET r == _delete_resource_group_direct(
                    Get(en_creds, "subscriptionId", ""),
                    ResourceGroupName(RequestProject, RequestEnv), en_creds, net)
        IN  /\ en_calls' = en_calls \o r.calls
            /\ en_result' = Ok(Merge([destroyed |-> FALSE, pulumi_stack |-> "not_found",
                                      attempting_direct_deletion |-> TRUE], r.result))
    /\ en_pc' = "done"
    /\ UNCHANGED <<en_req, en_known, en_exc, en_creds, en_validation, environ, stacks,
                   th, nm_vars, fb_vars, vl_vars, uw_vars>>


\* a dry run that converges: the stack comes out applied
DryRun_Applies ==
    /\ en_pc = "dryrun"
    /\ ~ProgramRaises(RequestIR)
    /\ en_calls' = Append(en_calls, Call("stack.preview", RequestStack))
    /\ stacks' = [stacks EXCEPT ![RequestStack].applied = TRUE]
    /\ en_result' = Ok([preview |-> TRUE, changeSummary |-> "res.change_summary",
                        validation |-> en_validation])
    /\ en_pc' = "done"
    /\ UNCHANGED <<en_req, en_known, en_exc, en_creds, en_validation, environ,
                   th, nm_vars, fb_vars, vl_vars, uw_vars>>

\* PulumiEngine.preview: stack.preview returns
DryRun ==
    /\ en_pc = "dryrun"
    /\ ~ProgramRaises(RequestIR)
    /\ en_calls' = Append(en_calls, Call("stack.preview", RequestStack))
    /\ en_result' = Ok([preview |-> TRUE, changeSummary |-> "res.change_summary",
                        validation |-> en_validation])
    /\ en_pc' = "done"
    /\ UNCHANGED <<en_req, en_known, en_exc, en_creds, en_validation, environ, stacks,
                   th, nm_vars, fb_vars, vl_vars, uw_vars>>

\* PulumiEngine.preview: stack.preview raises
DryRunFails ==
    /\ en_pc = "dryrun"
    /\ en_calls' = Append(en_calls, Raised("stack.preview", RequestStack))
    /\ en_exc' = CommandError
    /\ en_result' = BadRequest(Msg("str(e)", <<CommandError.str>>))
    /\ en_pc' = "done"
    /\ UNCHANGED <<en_req, en_known, en_creds, en_validation, environ, stacks,
                   th, nm_vars, fb_vars, vl_vars, uw_vars>>

\* PulumiEngine.up: stack.up returns, the stack is applied, outputs unwrapped
Converge ==
    /\ en_pc = "converge"
    /\ ~ProgramRaises(RequestIR)
    /\ en_calls' = Append(en_calls, Call("stack.up", RequestStack))
    /\ stacks' = [stacks EXCEPT ![RequestStack].applied = TRUE]
    /\ \E outputs \in ConvergeOutputs :
        en_result' = Ok([preview |-> FALSE, outputs |-> UnwrapOutputs(outputs),
                         summary |-> [resources |-> "resource_changes",
                                      duration_sec |-> "duration"]])
    /\ en_pc' = "done"
    /\ UNCHANGED <<en_req, en_known, en_exc, en_creds, en_validation, environ,
                   th, nm_vars, fb_vars, vl_vars, uw_vars>>

\* PulumiEngine.up: stack.up raises, with or without resources already made
ConvergeFails ==
    /\ en_pc = "converge"
    /\ en_calls' = Append(en_calls, Raised("stack.up", RequestStack))
    /\ \E partial \in BOOLEAN :
        stacks' = [stacks EXCEPT ![RequestStack].applied = @ \/ partial]
    /\ \E e \in (IF ProgramRaises(RequestIR) THEN {ProgramError} ELSE ConvergeFailures) :
        /\ en_exc' = e
        /\ en_result' = BadRequest(ClassifyUpFailure(e))
    /\ en_pc' = "done"
    /\ UNCHANGED <<en_req, en_known, en_creds, en_validation, environ,
                   th, nm_vars, fb_vars, vl_vars, uw_vars>>

\* PulumiEngine.destroy: stack.destroy returns; remove_stack removes the
\* record, or raises and is passed over
EngineDestroy ==
    /\ en_pc = "destroy"
    /\ en_calls' = en_calls \o <<Call("stack.destroy", RequestStack),
                                 Call("workspace.remove_stack", RequestStack)>>
    /\ \E removed \in BOOLEAN :
        stacks' = IF removed THEN Remove(stacks, RequestStack)
                  ELSE [stacks EXCEPT ![RequestStack].applied = FALSE]
    /\ en_result' = Ok([destroyed |-> TRUE,
                        resources_deleted |-> IF stacks[RequestStack].applied THEN 1 ELSE 0,
                        message |-> Msg("Destroyed resources via Pulumi", <<>>),
                        resource_group |-> ResourceGroupName(RequestProject, RequestEnv)])
    /\ en_pc' = "done"
    /\ UNCHANGED <<en_req, en_known, en_exc, en_creds, en_validation, environ,
                   th, nm_vars, fb_vars, vl_vars, uw_vars>>

\* PulumiEngine.destroy: stack.destroy raises; with creds the direct deletion
\* follows, without creds remove_stack is tried and the failure reported
EngineDestroyFails ==
    /\ en_pc = "destroy"
    /\ en_exc' = CommandError
    /\ IF HasCreds(en_creds)
       THEN /\ en_calls' = Append(en_calls, Raised("stack.destroy", RequestStack))
            /\ en_pc' = "fallback"
            /\ UNCHANGED <<stacks, en_result>>
       ELSE /\ en_calls' = en_calls \o <<Raised("stack.destroy", RequestStack),
                                         Call("workspace.remove_stack", RequestStack)>>
            /\ \E removed \in BOOLEAN :
                stacks' = IF removed THEN Remove(stacks, RequestStack) ELSE stacks
            /\ en_result' = Ok([destroyed |-> FALSE, error |-> CommandError.str,
                                message |-> Msg("Destroy failed. Some resources may still exist. Provide credentials to attempt direct deletion.", <<>>)])
            /\ en_pc' = "done"
    /\ UNCHANGED <<en_req, en_known, en_creds, en_validation, environ,
                   th, nm_vars, fb_vars, vl_vars, uw_vars>>

\* PulumiEngine.destroy: the direct deletion after a failed stack.destroy
DirectDeleteFallback ==
    /\ en_pc = "fallback"
    /\ \E net \in NetOutcomes :
        LET r == _delete_resource_group_direct(
                    Get(en_creds, "subscriptionId", ""),
                    ResourceGroupName(RequestProject, RequestEnv), en_creds, net)
        IN  /\ en_calls' = en_calls \o r.calls
            /\ en_result' = Ok(Merge([destroyed |-> Get(r.result, "deleted", FALSE),
                                      pulumi_destroy_failed |-> TRUE, error |-> en_exc.str],
                                     r.result))
    /\ en_pc' = "done"
    /\ UNCHANGED <<en_req, en_known, en_exc, en_creds, en_validation, environ, stacks,
                   th, nm_vars, fb_vars, vl_vars, uw_vars>>

EngineInit == FabricIdle /\ NamingIdle /\ ValidatorIdle /\ EngineIdle /\ UnwrapIdle

EngineNext ==
    \/ Receive
    \/ ExportAzureCreds
    \/ DestroyEntry
    \/ PreviewValidate
    \/ SelectStack
    \/ SelectStackFails
    \/ DirectDelete
    \/ DryRun
    \/ DryRunFails
    \/ Converge
    \/ ConvergeFails
    \/ EngineDestroy
    \/ EngineDestroyFails
    \/ DirectDeleteFallback

SpecEngine == EngineInit /\ [][EngineNext]_vars


----------------------------------------------------------------------------
(* Vocabulary of the claims about the deployment engine                    *)

\* the request in progress has been answered
Answered200 == en_pc = "done" /\ en_result.status = 200

\* the calls of the request with the given name, as positions in en_calls
CallsOf(name) == {i \in 1..Len(en_calls) : en_calls[i].call = name}

----------------------------------------------------------------------------
(* C11: destroy(project, env) called for a stack that was never previewed  *)
(* or applied, with no credentials, returns a result with destroyed=false  *)
(* whose message states that the stack was not found and that no           *)
(* credentials were provided; it does not report a successful destroy.     *)
C11_DestroyOfUnknownStack ==
    (/\ en_pc = "done"
     /\ en_req.op = "destroy"
     /\ ~en_known
     /\ ~HasCreds(en_req.creds)) =>
        /\ en_result.status = 200
        /\ en_result.body.destroyed = FALSE
        /\ en_result.body.message.text =
                "Stack not found and no credentials provided for direct deletion"


----------------------------------------------------------------------------
(* Inputs and specification of the storage account name                    *)

AccountAlphabet == {"a", "Z", "7", "-", NonAsciiLetter}

RECURSIVE AccountStrsOfLen(_)
AccountStrsOfLen(n) ==
    IF n = 0 THEN {<<>>}
    ELSE {Append(s, c) : s \in AccountStrsOfLen(n - 1), c \in AccountAlphabet}

\* short strings, and strings that straddle the cut at 24 characters with a
\* letter or with a digit in front
AccountStrs ==
    LET short == UNION {AccountStrsOfLen(n) : n \in 0..MaxLen}
        pad(c) == <<c>> \o [i \in 1..(MaxAccountName - 3) |-> "b"]
    IN  short \cup {<<"a","b">>}
              \cup {pad("c") \o s : s \in short}
              \cup {pad("7") \o s : s \in short}

\* storage nodes: the id, an optional name and an optional props.accountName
StorageNodeInputs ==
    {[id |-> <<"n","1">>, kind |-> "azure.storage", name |-> None,
      props |-> EmptyDict]}
    \cup {[id |-> <<"n","1">>, kind |-> "azure.storage", name |-> s,
           props |-> EmptyDict] : s \in AccountStrs}
    \cup {[id |-> <<"n","1">>, kind |-> "azure.storage", name |-> n,
           props |-> [accountName |-> s]] :
              n \in {None, <<"m","y">>}, s \in AccountStrs}
    \cup {[id |-> <<>>, kind |-> "azure.storage", name |-> None,
           props |-> [accountName |-> <<>>]]}
    \cup {[id |-> <<"n","1">>, kind |-> "azure.storage",
           name |-> [i \in 1..39 |-> "b"] \o <<"-","c","d">>, props |-> EmptyDict]}

StorageNameInit ==
    /\ FabricIdle
    /\ ValidatorIdle
    /\ EngineIdle
    /\ UnwrapIdle
    /\ nm_pc = "sa_call"
    /\ nm_arg \in StorageNodeInputs
    /\ nm_ret = None

StorageAccountName ==
    /\ nm_pc = "sa_call"
    /\ nm_ret' = sa_name(nm_arg)
    /\ nm_pc' = "sa_return"
    /\ UNCHANGED <<nm_arg, fb_vars, vl_vars, en_vars, uw_vars>>

\* _create_storage called for a node whose props.accountName is the account
\* name the first call derived
StorageAccountNameAgain ==
    /\ nm_pc = "sa_return"
    /\ LET node == [id |-> nm_arg.id, kind |-> nm_arg.kind, name |-> nm_arg.name,
                    props |-> [accountName |-> nm_ret]]
       IN  /\ nm_arg' = node
           /\ nm_ret' = sa_name(node)
    /\ nm_pc' = "sa_again"
    /\ UNCHANGED <<fb_vars, vl_vars, en_vars, uw_vars>>

StorageNameNext ==
    \/ StorageAccountName
    \/ StorageAccountNameAgain

SpecStorageName == StorageNameInit /\ [][StorageNameNext]_vars

----------------------------------------------------------------------------
(* C12: for a storage node the account name, derived from                  *)
(* props.accountName, else the node's name, else its id, contains only     *)
(* lowercase letters and digits, is between 3 and 24 characters long and   *)
(* starts with a letter; the two-character name "ab" is extended to        *)
(* exactly 3 characters.                                                   *)
C12_StorageAccountNameShape ==
    nm_pc = "sa_return" =>
        /\ \A i \in 1..Len(nm_ret) : nm_ret[i] \in AsciiLower \cup AsciiDigit
        /\ Len(nm_ret) >= 3
        /\ Len(nm_ret) <= 24
        /\ nm_ret[1] \in AsciiLower
        /\ (Desired(nm_arg) = <<"a","b">> => Len(nm_ret) = 3)


----------------------------------------------------------------------------
(* Specification of a repeated compilation: apply_ir runs on an ir, and a  *)
(* fresh AzureFabric then runs apply_ir on the same ir.                    *)

\* nodes that carry a name and props the provider-visible names are made of
NamedNodeInputs ==
    {[id |-> <<"s","1">>, kind |-> "azure.storage", name |-> <<"M","y","-","D","a","t","a">>,
      props |-> [containerName |-> <<"u","p">>]],
     [id |-> <<"q","_","1">>, kind |-> "azure.servicebus", name |-> None,
      props |-> [queueName |-> <<"j","o","b","s">>]]}

RecompileNodes == 2

RecompileInputs ==
    {[nodes |-> ns, edges |-> es] :
        ns \in SeqsOfLen(NodeInputs \cup NamedNodeInputs, RecompileNodes),
        es \in SeqsUpTo(EdgeInputs, 1)}

\* what a finished apply_ir has declared: the logical names, the names
\* handed to the provider, the output keys, the subscriptions and exports
Compiled ==
    [ran |-> TRUE,
     pc |-> fb_pc,
     resources |-> fb_resources,
     named |-> fb_named,
     outputs |-> DOMAIN _outputs,
     bindings |-> fb_bindings,
     exports |-> fb_exports,
     error |-> fb_error]

\* AzureFabric(...).apply_ir(ir) is entered
CompileCall ==
    /\ fb_pc = "idle"
    /\ \E ir \in RecompileInputs :
        /\ fb_ir' = ir
        /\ fb_pc' = PcAt(ir, 1, 1)
    /\ UNCHANGED <<fb_ni, fb_ei, node_index, _outputs, fb_created, fb_resources,
                   fb_named, fb_prev, fb_bindings, fb_exports, fb_log, fb_error,
                   sr_last, nm_vars, vl_vars, en_vars, uw_vars>>

\* a fresh AzureFabric (__init__: empty node_index and _outputs) enters
\* apply_ir with the ir of the finished run
Recompile ==
    /\ fb_pc \in {"returned", "raised"}
    /\ fb_prev = NoRun
    /\ fb_prev' = Compiled
    /\ fb_ni' = 1
    /\ fb_ei' = 1
    /\ node_index' = EmptyDict
    /\ _outputs' = EmptyDict
    /\ fb_created' = <<>>
    /\ fb_resources' = <<>>
    /\ fb_named' = <<>>
    /\ fb_bindings' = <<>>
    /\ fb_exports' = <<>>
    /\ fb_log' = <<>>
    /\ fb_error' = NoError
    /\ fb_pc' = PcAt(fb_ir, 1, 1)
    /\ UNCHANGED <<fb_ir, sr_last, nm_vars, vl_vars, en_vars, uw_vars>>

RecompileNext ==
    \/ CompileCall
    \/ CreateNode
    \/ RaiseUnsupportedKind
    \/ Connect
    \/ Recompile

SpecRecompile == Init /\ [][RecompileNext]_vars

----------------------------------------------------------------------------
----------------------------------------------------------------------------
(* C14: for each of preview, up and destroy, credentials supplied with the *)
(* request are exported as ambient process context before any call into    *)
(* the engine or the compiler, and they are never part of the IR.          *)
C14_CredsExportedBeforeEngine ==
    (/\ en_req.op \in {"preview", "up", "destroy"}
     /\ en_req.via = "http"
     /\ HasCreds(en_req.creds)) =>
        /\ en_calls # <<>> =>
                /\ en_calls[1] = Call("_export_azure_creds", <<>>)
                /\ {"ARM_CLIENT_ID", "ARM_CLIENT_SECRET", "ARM_TENANT_ID",
                    "ARM_SUBSCRIPTION_ID"} \subseteq DOMAIN environ
                /\ environ.ARM_CLIENT_ID = en_req.creds.clientId
                /\ environ.ARM_CLIENT_SECRET = en_req.creds.clientSecret
                /\ environ.ARM_TENANT_ID = en_req.creds.tenantId
                /\ environ.ARM_SUBSCRIPTION_ID = en_req.creds.subscriptionId
        /\ en_req.op # "destroy" => "creds" \notin DOMAIN RequestIR


----------------------------------------------------------------------------
(* C15: when the stack exists and the engine-level destroy fails, destroy  *)
(* makes exactly one direct-deletion attempt of the resource group         *)
(* rg-<project>-<env> if it was given credentials, and reports destroyed   *)
(* equal to the outcome of that attempt; given no credentials it makes no  *)
(* direct-deletion attempt and returns destroyed=false with a message that *)
(* resources may still exist.                                              *)

\* the request was a destroy whose stack.destroy raised, and it has returned
DestroyFailedAndReturned ==
    /\ en_pc = "done"
    /\ en_req.op = "destroy"
    /\ \E i \in CallsOf("stack.destroy") : en_calls[i].raised

\* the DELETE requests that were answered with an accepted status
AcceptedDeletes ==
    {i \in CallsOf("requests.delete") :
        ~en_calls[i].raised /\ en_calls[i].status \in {200, 202}}

C15_OneDirectDeletionAttempt ==
    DestroyFailedAndReturned =>
        IF DOMAIN en_creds # {}
        THEN /\ Cardinality(CallsOf("requests.post token")) = 1
             /\ Cardinality(CallsOf("requests.delete")) <= 1
             /\ \A i \in CallsOf("requests.delete") :
                    en_calls[i].target =
                        <<"r","g","-">> \o en_req.project \o <<"-">> \o en_req.env
             /\ en_result.status = 200
             /\ en_result.body.destroyed = (AcceptedDeletes # {})
        ELSE /\ CallsOf("requests.post token") = {}
             /\ CallsOf("requests.delete") = {}
             /\ en_result.status = 200
             /\ en_result.body.destroyed = FALSE
             /\ en_result.body.message.text = "Destroy failed. Some resources may still exist. Provide credentials to attempt direct deletion."

\* the fallback deleted the resource group of an applied stack
C15_Witness ==
    /\ DestroyFailedAndReturned
    /\ DOMAIN en_creds # {}
    /\ AcceptedDeletes # {}
    /\ en_result.body.destroyed = TRUE
    /\ en_known


----------------------------------------------------------------------------
(* C16: the stack record of (project, env) is removed on successful        *)
(* destroy: once a destroy call has returned destroyed=true, no stack      *)
(* record for that (project, env) exists, whichever path (engine-level     *)
(* destroy or direct-deletion fallback) produced the success.              *)
C16_StackRemovedOnSuccess ==
    (/\ en_pc = "done"
     /\ en_req.op = "destroy"
     /\ en_result.status = 200
     /\ en_result.body.destroyed = TRUE) =>
        StackName(en_req.project, en_req.env) \notin DOMAIN stacks


----------------------------------------------------------------------------
(* C17: on the up path an IR with a structural defect (duplicate node ids, *)
(* an edge endpoint that names no node, or an illegal resource name) is    *)
(* rejected with a validation error raised to the caller before the        *)
(* engine is asked to converge; no provisioning attempt happens for it.    *)

\* the ir of the request has two nodes with one id, or an edge whose
\* endpoint is the id of no node, or a key vault name with an underscore
UpIRDefective ==
    LET nodes == en_req.ir.nodes
        edges == en_req.ir.edges
        ids == {nodes[i].id : i \in 1..Len(nodes)}
    IN  \/ \E i, j \in 1..Len(nodes) : i < j /\ nodes[i].id = nodes[j].id
        \/ \E k \in 1..Len(edges) : edges[k].from \notin ids \/ edges[k].to \notin ids
        \/ \E i \in 1..Len(nodes) :
                /\ nodes[i].kind = "azure.keyvault"
                /\ \E c \in 1..Len(nodes[i].name) : nodes[i].name[c] = "_"

C17_UpRejectsDefectiveIR ==
    (en_req.op = "up" /\ UpIRDefective) =>
        /\ CallsOf("stack.up") = {}
        /\ CallsOf("create_or_select_stack") = {}
        /\ en_pc = "done" => en_result.status = 400


----------------------------------------------------------------------------
(* C18: when converge fails during up, the caller receives exactly one     *)
(* classified failure: capacity-limit guidance if the engine message holds *)
(* the regional-environment-limit signature, else unique-name guidance if  *)
(* it holds the name-taken signature, else region-policy guidance if it    *)
(* holds the policy-disallowed signature, else a generic "Deployment       *)
(* failed" error carrying the original message; no outputs are returned    *)
(* and the failure is not swallowed.                                       *)

\* the request was an up whose stack.up raised, and it has been answered
UpFailedAndAnswered ==
    /\ en_pc = "done"
    /\ en_req.op = "up"
    /\ \E i \in CallsOf("stack.up") : en_calls[i].raised

\* the message of the exception stack.up raised
EngineMessage == IF en_exc.args # <<>> THEN en_exc.args[1] ELSE en_exc.str

HasCapacitySignature == In(CapacitySignature, EngineMessage)
HasNameTakenSignature ==
    In(NameTakenSignature, EngineMessage) \/ In(NameTakenPhrase, Lower(EngineMessage))
HasPolicySignature == In(PolicySignature, EngineMessage)

C18_UpFailureClassified ==
    UpFailedAndAnswered =>
        /\ en_result.status = 400
        /\ DOMAIN en_result = {"status", "detail"}
        /\ en_result.detail.text =
                IF HasCapacitySignature THEN "Container App Environment limit reached"
                ELSE IF HasNameTakenSignature THEN "Storage account name is already taken"
                ELSE IF HasPolicySignature
                THEN "Azure subscription policy blocked this region"
                ELSE "Deployment failed"
        /\ en_result.detail.text = "Deployment failed" =>
                en_result.detail.args = <<EngineMessage>>

\* a message with the capacity and the policy signature got capacity guidance
C18_Witness ==
    /\ UpFailedAndAnswered
    /\ HasCapacitySignature
    /\ HasPolicySignature
    /\ en_result.detail.text = "Container App Environment limit reached"


----------------------------------------------------------------------------
(* Inputs and specification of _unwrap                                     *)

MaxDepth == 3

\* the output values nested to depth d: a scalar and the empty containers,
\* and around each value of depth d - 1 a plain and a secret wrapper, a
\* dict of one and of two items, a list and a tuple
RECURSIVE ValuesOfDepth(_)
ValuesOfDepth(d) ==
    IF d = 0
    THEN {Scalar("a"), Dict(<<>>), List(<<>>)}
    ELSE LET below == ValuesOfDepth(d - 1)
         IN  below
             \cup {Wrapped(s, x) : s \in BOOLEAN, x \in below}
             \cup {Dict(<<Item("k", x)>>) : x \in below}
             \cup {Dict(<<Item("k2", Wrapped(TRUE, Scalar("b"))), Item("k1", x)>>) :
                        x \in below}
             \cup {List(<<x>>) : x \in below}
             \cup {Tuple(<<x, Scalar("b")>>) : x \in below}

UnwrapInputs == ValuesOfDepth(MaxDepth)

UnwrapInit ==
    /\ FabricIdle
    /\ NamingIdle
    /\ ValidatorIdle
    /\ EngineIdle
    /\ uw_pc = "call"
    /\ uw_arg \in UnwrapInputs
    /\ uw_ret = None

\* _unwrap(v) for one value v of up_res.outputs
UnwrapCall ==
    /\ uw_pc = "call"
    /\ uw_ret' = _unwrap(uw_arg)
    /\ uw_pc' = "return"
    /\ UNCHANGED <<uw_arg, nm_vars, fb_vars, vl_vars, en_vars>>

UnwrapNext == UnwrapCall

SpecUnwrap == UnwrapInit /\ [][UnwrapNext]_vars

----------------------------------------------------------------------------
(* C19: for an output value built from scalars, wrapped (deferred or       *)
(* secret) values, mappings and sequences nested to any depth, the value   *)
(* up returns holds no wrapped value at any depth and otherwise keeps the  *)
(* same keys, element order and nesting; unwrapping an already plain value *)
(* returns it unchanged.                                                   *)

\* x holds a wrapped value at some depth
RECURSIVE HasWrapped(_)
HasWrapped(x) ==
    \/ x.t = "wrapped"
    \/ /\ x.t = "dict"
       /\ \E i \in 1..Len(x.items) : HasWrapped(x.items[i].v)
    \/ /\ x.t \in {"list", "tuple"}
       /\ \E i \in 1..Len(x.items) : HasWrapped(x.items[i])

\* x under the wrappers around it
RECURSIVE Peel(_)
Peel(x) == IF x.t = "wrapped" THEN Peel(x.value) ELSE x

\* y is x with the wrappers left out: the same kind of value at each place,
\* the same keys in the same order, the same elements in the same order
RECURSIVE SameButWrappers(_, _)
SameButWrappers(x, y) ==
    LET p == Peel(x)
    IN  /\ p.t = y.t
        /\ IF p.t = "scalar" THEN p.v = y.v
           ELSE /\ Len(p.items) = Len(y.items)
                /\ \A i \in 1..Len(p.items) :
                    IF p.t = "dict"
                    THEN /\ p.items[i].k = y.items[i].k
                         /\ SameButWrappers(p.items[i].v, y.items[i].v)
                    ELSE SameButWrappers(p.items[i], y.items[i])

C19_UnwrapRemovesEveryWrapper ==
    uw_pc = "return" =>
        /\ ~HasWrapped(uw_ret)
        /\ SameButWrappers(uw_arg, uw_ret)
        /\ ~HasWrapped(uw_arg) => uw_ret = uw_arg

\* a secret value inside a list inside a dict came out plain
C19_Witness ==
    /\ uw_pc = "return"
    /\ uw_arg = Dict(<<Item("k", List(<<Wrapped(TRUE, Scalar("a"))>>))>>)
    /\ uw_ret = Dict(<<Item("k", List(<<Scalar("a")>>))>>)


----------------------------------------------------------------------------
(* C20: within one apply_ir call the nodes are realized one at a time in   *)
(* IR input order, and every edge is resolved only after all nodes have    *)
(* been realized, the edges in IR input order; no edge is resolved between *)
(* two node constructions.                                                 *)

\* the edges that have left a trace: a warning, a subscription or an export
EdgesSeen ==
    {fb_log[i].edge : i \in 1..Len(fb_log)}
        \cup {fb_bindings[i].edge : i \in 1..Len(fb_bindings)}
        \cup {fb_exports[i].edge : i \in 1..Len(fb_exports)}

\* the edge numbers of a sequence of traces never go down
InEdgeOrder(traces) ==
    \A i, j \in 1..Len(traces) : i < j => traces[i].edge <= traces[j].edge

C20_NodesThenEdgesInOrder ==
    /\ \A i \in 1..Len(fb_created) : fb_created[i].node = i
    /\ Len(fb_created) < fb_ni
    /\ (fb_ei > 1 \/ EdgesSeen # {}) =>
            /\ fb_ni = Len(fb_ir.nodes) + 1
            /\ Len(fb_created) = Len(fb_ir.nodes)
    /\ \A e \in EdgesSeen : e < fb_ei
    /\ InEdgeOrder(fb_log)
    /\ InEdgeOrder(fb_bindings)
    /\ InEdgeOrder(fb_exports)

\* apply_ir returned after two nodes and two edges, each edge with a trace
C20_Witness ==
    /\ fb_pc = "returned"
    /\ Len(fb_created) = 2
    /\ fb_ei = 3
    /\ EdgesSeen = {1, 2}
    /\ fb_bindings # <<>>


----------------------------------------------------------------------------
(* C21: output keys are unique per deployment: during one compilation of a *)
(* graph with unique node ids no output key (node key                      *)
(* <domain>-<sanitized-name>-<attribute> or edge key                       *)
(* bind-<sanitized-target>-<attribute>) is written more than once.         *)

\* no two nodes of the ir have one id
UniqueNodeIds ==
    \A i, j \in 1..Len(fb_ir.nodes) : i # j => fb_ir.nodes[i].id # fb_ir.nodes[j].id

\* the number of writes to self._outputs the creators called so far have made
RECURSIVE NodeKeyWrites(_)
NodeKeyWrites(created) ==
    IF created = <<>> THEN 0
    ELSE Len(CreatorNamed(Head(created).creator).attrs) + NodeKeyWrites(Tail(created))

C21_OutputKeysWrittenOnce ==
    UniqueNodeIds =>
        /\ Cardinality(DOMAIN _outputs) = NodeKeyWrites(fb_created)
        /\ \A i, j \in 1..Len(fb_exports) : i # j => fb_exports[i].key # fb_exports[j].key


----------------------------------------------------------------------------
(* The handlers on the threads of the server.  preview, up and destroy are *)
(* plain def functions, so the framework runs each request on a worker     *)
(* thread; os.environ and the backend are shared by the threads.  A thread *)
(* goes from the handler (the export of the credentials) into the engine   *)
(* method (validation, build_pulumi_program), through _stack and           *)
(* _set_config, into stack.preview / stack.up / stack.destroy, whose       *)
(* command runs with the environment it is started in.                     *)

\* two (project, env) pairs with a hyphen in the project or in the env
PairInputs ==
    {[project |-> <<"p">>, env |-> <<"d","-","e">>],
     [project |-> <<"p","-","d">>, env |-> <<"e">>]}

Creds1 ==
    [clientId |-> "client-1", clientSecret |-> "secret-1",
     subscriptionId |-> "sub-1", tenantId |-> "tenant-1"]

Creds2 ==
    [clientId |-> "client-2", clientSecret |-> "secret-2",
     subscriptionId |-> "sub-2", tenantId |-> "tenant-2"]

\* POST /preview (without creds or with the first), POST /up (without creds
\* or with the second) and POST /destroy
ThreadRequests ==
    {[op |-> "preview", creds |-> c, project |-> x.project, env |-> x.env] :
        c \in {NoCreds, Creds1}, x \in PairInputs}
    \cup {[op |-> "up", creds |-> c, project |-> x.project, env |-> x.env] :
        c \in {NoCreds, Creds2}, x \in PairInputs}
    \cup {[op |-> "destroy", creds |-> NoCreds, project |-> x.project, env |-> x.env] :
        x \in PairInputs}

\* the ARM_* variables _export_azure_creds sets
ArmVariables(creds) ==
    [ARM_CLIENT_ID |-> creds.clientId,
     ARM_CLIENT_SECRET |-> creds.clientSecret,
     ARM_TENANT_ID |-> creds.tenantId,
     ARM_SUBSCRIPTION_ID |-> creds.subscriptionId]

ThreadStack(t) == StackName(th[t].req.project, th[t].req.env)

\* a request reaches its handler on a free thread
ThReceive(t) ==
    /\ th[t].pc = "idle"
    /\ \E req \in ThreadRequests :
        th' = [th EXCEPT ![t] = [pc |-> "handler", req |-> req, ambient |-> EmptyDict]]
    /\ UNCHANGED <<en_pc, en_req, en_known, en_exc, en_creds, en_validation, en_calls,
                   en_result, environ, stacks, nm_vars, fb_vars, vl_vars, uw_vars>>

\* the handler: _export_azure_creds(req.creds) in preview and up, then the
\* engine method is entered
ThExport(t) ==
    /\ th[t].pc = "handler"
    /\ environ' = IF th[t].req.op # "destroy" /\ HasCreds(th[t].req.creds)
                  THEN Merge(environ, ArmVariables(th[t].req.creds))
                  ELSE environ
    /\ th' = [th EXCEPT ![t].pc = "engine"]
    /\ UNCHANGED <<en_pc, en_req, en_known, en_exc, en_creds, en_validation, en_calls,
                   en_result, stacks, nm_vars, fb_vars, vl_vars, uw_vars>>

\* the engine method: the program is built, _stack creates or selects the
\* stack, _set_config sets the location
ThSelect(t) ==
    /\ th[t].pc = "engine"
    /\ stacks' = IF ThreadStack(t) \in DOMAIN stacks THEN stacks
                 ELSE Put(stacks, ThreadStack(t),
                          [project |-> th[t].req.project, applied |-> FALSE])
    /\ th' = [th EXCEPT ![t].pc = "selected"]
    /\ UNCHANGED <<en_pc, en_req, en_known, en_exc, en_creds, en_validation, en_calls,
                   en_result, environ, nm_vars, fb_vars, vl_vars, uw_vars>>

\* stack.preview / stack.up / stack.destroy starts its command, which
\* inherits os.environ as it is at that moment
ThBegin(t) ==
    /\ th[t].pc = "selected"
    /\ th' = [th EXCEPT ![t].pc = "running", ![t].ambient = environ]
    /\ UNCHANGED <<en_pc, en_req, en_known, en_exc, en_creds, en_validation, en_calls,
                   en_result, environ, stacks, nm_vars, fb_vars, vl_vars, uw_vars>>

\* the backend refuses the command because another command holds the stack
\* (whether a backend locks, and for which commands, is the backend's
\* choice): the engine method raises and the handler answers 400
ThConflict(t) ==
    /\ th[t].pc = "selected"
    /\ \E u \in Threads \ {t} : th[u].pc = "running" /\ ThreadStack(u) = ThreadStack(t)
    /\ th' = [th EXCEPT ![t] = IdleThread]
    /\ UNCHANGED <<en_pc, en_req, en_known, en_exc, en_creds, en_validation, en_calls,
                   en_result, environ, stacks, nm_vars, fb_vars, vl_vars, uw_vars>>

\* the command ends and the handler answers: a successful up leaves the
\* stack applied, a successful destroy removes it (remove_stack), a preview
\* and a failed command change nothing
ThEnd(t) ==
    /\ th[t].pc = "running"
    /\ \E ok \in BOOLEAN :
        stacks' =
            IF ~ok \/ ThreadStack(t) \notin DOMAIN stacks THEN stacks
            ELSE IF th[t].req.op = "up"
            THEN [stacks EXCEPT ![ThreadStack(t)].applied = TRUE]
            ELSE IF th[t].req.op = "destroy"
            THEN Remove(stacks, ThreadStack(t))
            ELSE stacks
    /\ th' = [th EXCEPT ![t] = IdleThread]
    /\ UNCHANGED <<en_pc, en_req, en_known, en_exc, en_creds, en_validation, en_calls,
                   en_result, environ, nm_vars, fb_vars, vl_vars, uw_vars>>

Receives == \E t \in Threads : ThReceive(t)
Exports == \E t \in Threads : ThExport(t)
Selects == \E t \in Threads : ThSelect(t)
Begins == \E t \in Threads : ThBegin(t)
Conflicts == \E t \in Threads : ThConflict(t)
Ends == \E t \in Threads : ThEnd(t)

ConcurrentNext ==
    \/ Receives
    \/ Exports
    \/ Selects
    \/ Begins
    \/ Conflicts
    \/ Ends

SpecConcurrent == EngineInit /\ [][ConcurrentNext]_vars

----------------------------------------------------------------------------
(* C22: at most one deployment operation (preview, up or destroy) is in    *)
(* progress at any time for a given (project, env): two requests that      *)
(* target the same stack are serialized at the engine boundary and never   *)
(* interleave their compile / converge / destroy steps.                    *)

\* the thread is inside the engine method of its request
InEngine(t) == th[t].pc \in {"engine", "selected", "running"}

C22_OneOperationPerStack ==
    \A t, u \in Threads :
        (/\ t # u
         /\ InEngine(t)
         /\ InEngine(u)
         /\ th[t].req.project = th[u].req.project
         /\ th[t].req.env = th[u].req.env) => FALSE


----------------------------------------------------------------------------
(* C23: for every supported (source kind, destination kind) pair other     *)
(* than storage -> queue, the descriptive export of a notify edge          *)
(* publishes attributes of the resource record of the edge's source node,  *)
(* under keys bind-<sanitized destination id>-<attribute>; it never        *)
(* publishes the destination's own attributes.                             *)
C23_ExportsPublishTheSource ==
    \A i \in 1..Len(fb_exports) :
        LET edge == fb_ir.edges[fb_exports[i].edge]
            prefix == <<"b","i","n","d","-">> \o safe_name(ToId(edge)) \o <<"-">>
        IN  /\ fb_exports[i].owner = FromId(edge)
            /\ Len(fb_exports[i].key) > Len(prefix)
            /\ SubSeq(fb_exports[i].key, 1, Len(prefix)) = prefix


----------------------------------------------------------------------------
(* C24: the kind-specific tightening stage of name derivation is           *)
(* idempotent: the storage-account tightening (lowercase, keep             *)
(* alphanumerics, pad to 3, cut to 24, prefix when the first character is  *)
(* not a letter) applied to its own output returns that output unchanged,  *)
(* and likewise the truncation the other kinds apply on top of safe_name.  *)
C24_TighteningIdempotent ==
    /\ nm_pc = "sa_again" => nm_ret = nm_arg.props.accountName
    /\ nm_pc \in {"sa_return", "sa_again"} =>
            \A i \in 1..Len(Creators) :
                LET once == LogicalName(Creators[i], nm_arg)
                IN  Take(once, Creators[i].cut) = once

\* the name "7" became "st7st", and "st7st" stayed "st7st"
C24_Witness ==
    /\ nm_pc = "sa_again"
    /\ nm_ret = <<"s","t","7","s","t">>
    /\ nm_arg.props.accountName = <<"s","t","7","s","t">>


----------------------------------------------------------------------------
(* C25: preview is side-effect-free on real infrastructure: any number of  *)
(* preview calls, for a valid or invalid IR, only run the validator,       *)
(* compile the declaration and ask for a dry-run diff; they never invoke   *)
(* converge, engine-level destroy or direct deletion, and no stack becomes *)
(* applied through preview.                                                *)

\* the calls that change real infrastructure or remove a stack
ChangingCalls ==
    {"stack.up", "stack.destroy", "workspace.remove_stack",
     "requests.post token", "requests.delete"}

\* the stacks whose resources are provisioned
AppliedStacks == {k \in DOMAIN stacks : stacks[k].applied}

C25_PreviewChangesNothing ==
    [][(en_req.op = "preview" /\ en_pc \notin {"idle", "done"}) =>
            /\ AppliedStacks' = AppliedStacks
            /\ DOMAIN stacks \subseteq DOMAIN stacks'
            /\ \A i \in 1..Len(en_calls') : en_calls'[i].call \notin ChangingCalls]_vars

\* a preview of an IR with a duplicated id was answered with its dry-run
\* diff; its stack was created by the preview and is not applied
C25_Witness ==
    /\ en_pc = "done"
    /\ en_req.op = "preview"
    /\ en_result.status = 200
    /\ ~en_validation.valid
    /\ CallsOf("stack.preview") # {}
    /\ ~en_known
    /\ RequestStack \in DOMAIN stacks
    /\ ~stacks[RequestStack].applied


----------------------------------------------------------------------------
(* C26: within one compilation of a graph whose node ids are unique and    *)
(* whose node names are pairwise distinct, every declared provider         *)
(* resource has a distinct logical name (type + name): no two nodes or     *)
(* edges, of the same or of different kinds, declare one resource          *)
(* identity.                                                               *)

\* the name a node goes by: node.get("name") or node["id"]
GivenName(node) == PyOr(Get(node, "name", None), node.id)

DistinctNodeNames ==
    \A i, j \in 1..Len(fb_ir.nodes) :
        i # j => GivenName(fb_ir.nodes[i]) # GivenName(fb_ir.nodes[j])

C26_LogicalNamesDistinct ==
    (UniqueNodeIds /\ DistinctNodeNames) =>
        \A i, j \in 1..Len(fb_resources) :
            i # j => ~(/\ fb_resources[i].type = fb_resources[j].type
                       /\ fb_resources[i].name = fb_resources[j].name)


----------------------------------------------------------------------------
(* C27: stack identity is injective in (project, env): two different       *)
(* (project, env) pairs never map to the same stack name "<project>-<env>" *)
(* nor to the same resource-group name "rg-<project>-<env>", so a destroy  *)
(* for one pair never targets the resources of another pair.               *)
C27_StackIdentityInjective ==
    \A t, u \in Threads :
        (/\ th[t].pc # "idle"
         /\ th[u].pc # "idle"
         /\ <<th[t].req.project, th[t].req.env>> # <<th[u].req.project, th[u].req.env>>) =>
            /\ StackName(th[t].req.project, th[t].req.env) #
                    StackName(th[u].req.project, th[u].req.env)
            /\ ResourceGroupName(th[t].req.project, th[t].req.env) #
                    ResourceGroupName(th[u].req.project, th[u].req.env)


----------------------------------------------------------------------------
(* C28: for every IR, with or without a location or region field, the      *)
(* validator, the compiler and the stack configuration resolve the same    *)
(* location: the region the validator warns about is the region the        *)
(* program is built for and the region set on the stack.                   *)
C28_OneLocation ==
    \A i \in CallsOf("build_pulumi_program"), j \in CallsOf("stack.set_config") :
        /\ en_calls[i].target = Location(RequestIR)
        /\ en_calls[j].target = Location(RequestIR)


----------------------------------------------------------------------------
(* C29: credentials are isolated between requests: the ambient             *)
(* authentication context a preview or up request runs its command in is   *)
(* the credentials that request supplied or, when it supplied none, the    *)
(* context the process started with; it is never the credentials exported  *)
(* for an earlier or concurrent request.                                   *)
C29_CredentialsIsolated ==
    \A t \in Threads :
        (th[t].pc = "running" /\ th[t].req.op \in {"preview", "up"}) =>
            th[t].ambient = IF HasCreds(th[t].req.creds)
                            THEN ArmVariables(th[t].req.creds)
                            ELSE EmptyDict


----------------------------------------------------------------------------
(* C30: destroy never removes the stack record while the stack's resources *)
(* may still exist: whenever a destroy removes the record of an applied    *)
(* stack, its stack.destroy returned or a direct deletion of its resource  *)
(* group was accepted.                                                     *)
C30_RecordOutlivesResources ==
    [][(/\ en_pc = "destroy"
        /\ RequestStack \in DOMAIN stacks
        /\ stacks[RequestStack].applied
        /\ RequestStack \notin DOMAIN stacks') =>
            \E i \in 1..Len(en_calls') :
                \/ en_calls'[i].call = "stack.destroy" /\ ~en_calls'[i].raised
                \/ /\ en_calls'[i].call = "requests.delete"
                   /\ ~en_calls'[i].raised
                   /\ en_calls'[i].status \in {200, 202}]_vars

====
